---- MODULE Spec2Model ----
(***************************************************************************)
(* IX-HapticSight / OHIP decision pipeline:                                *)
(*   EngagementScheduler -> ContactPlanner -> SafetyGate                   *)
(*                                                                         *)
(* Units.  The source works in floats; the model uses exact integers:      *)
(*   force        0.01 N          speed      0.01 m/s                      *)
(*   impedance    0.01 N/mm       dwell      ms                            *)
(*   utility, priority, distress  0.1        score   0.01                  *)
(*   time         s (the value of time())                                  *)
(*   position     a triple of integers; the poses used are multiples of    *)
(*                samples+1 so that corridor samples are exact             *)
(* A Pose is modelled by its xyz triple (frame and rpy are carried by the  *)
(* source and never inspected by the code modelled here); an absent pose   *)
(* or fingerprint (None) is the empty tuple.  A dict is a function whose   *)
(* DOMAIN is the set of keys present.                                      *)
(***************************************************************************)
EXTENDS Integers, Sequences, FiniteSets, TLC

VARIABLES
    now,                      \* the wall clock read by time()
    \* ---- SafetyGate instance ----
    profile,                  \* self._profile
    latched,                  \* self._latched
    latched_reason,           \* self._latched_reason
    latched_ts,               \* self._latched_ts
    g_call,                   \* the last SafetyGate call: arguments and return value
    g_hist,                   \* history of the gate's calls before the last one
    \* ---- EngagementScheduler instance ----
    last_social_contact_ts,   \* cooldowns._last_social_contact_ts
    last_nudge_fingerprint,   \* cooldowns._last_nudge_fingerprint
    last_nudge_ts,            \* cooldowns._last_nudge_ts
    scene,                    \* what the caller perceives and hands to decide():
                              \* human_state, consent, affordances, risk_query
    s_call,                   \* the last scheduler call and its return value
    emitted,                  \* history: fingerprint and time of the last nudge returned
    \* ---- ContactPlanner ----
    p_call,                   \* the last planner call: arguments and return value
    \* ---- ConsentManager instance ----
    rules,                    \* self._rules
    institutional_policy_enabled,  \* self._institutional_policy_enabled
    records,                  \* self._records: subject_id -> ConsentRecord
    c_call,                   \* the last ConsentManager call: arguments and return value
    \* ---- schemas ----
    x_call,                   \* the last call of a schemas function or constructor
    \* ---- threads ----
    threads                   \* thread id -> the call the thread is in: its position,
                              \* its local variables, its return value

gateVars  == <<profile, latched, latched_reason, latched_ts, g_call, g_hist>>
schedVars == <<last_social_contact_ts, last_nudge_fingerprint, last_nudge_ts,
               scene, s_call, emitted>>
planVars  == <<p_call>>
consentVars == <<rules, institutional_policy_enabled, records, c_call>>
schemaVars == <<x_call>>
threadVars == <<threads>>
vars      == <<now, gateVars, schedVars, planVars, consentVars, schemaVars, threadVars>>

\* ------------------------------------------------------------------ bounds

\* The clock runs from StartTime to StartTime + MaxTicks.
MaxTicks == 3

\* The longest candidate list handed to decide().
MaxCands == 2

\* PolicyProfile.social_cooldown_s of the policy the scheduler is built with
\* (a constructor input; kept short so that the clock bound lets it elapse).
social_cooldown_s == 3

\* ------------------------------------------------------------------ dicts

None == <<>>

Get(d, k, default) == IF k \in DOMAIN d THEN d[k] ELSE default

Min(a, b) == IF a <= b THEN a ELSE b

\* ------------------------------------------------------------------ schemas.py

SafetyLevel == {"GREEN", "YELLOW", "RED"}

ConsentMode == {"explicit", "policy", "none"}

NudgeLevel == {"GREEN", "YELLOW", "RED"}

MutValidateForceOnly(plan) == plan.peak_force_N >= 0

\* ContactPlan.validate(): the assertions hold (TRUE) or one of them fails (FALSE)
validate(plan) ==
    /\ plan.peak_force_N >= 0
    /\ 0 <= plan.dwell_ms /\ plan.dwell_ms <= 10000
    /\ 0 < plan.approach_speed_mps /\ plan.approach_speed_mps <= 100
    /\ 0 < plan.release_speed_mps /\ plan.release_speed_mps <= 100
    /\ \A r \in {plan.impedance.normal_N_per_mm, plan.impedance.tangential_N_per_mm} :
          0 <= r[1] /\ r[1] <= r[2]

\* An ISO-8601 timestamp string is <<n>>, n the second it names; a string
\* datetime.fromisoformat cannot parse is <<>>.
isoformat(n) == <<n>>

Parses(timestamp) == Len(timestamp) = 1

fromisoformat(timestamp) == timestamp[1]

MutActiveIgnoresMode(c, t) ==
    IF ~Parses(c.timestamp) THEN FALSE
    ELSE (t - fromisoformat(c.timestamp)) <= c.ttl_s

MutActiveStrictBoundary(c, t) ==
    IF c.mode = "none" THEN FALSE
    ELSE IF ~Parses(c.timestamp) THEN FALSE
    ELSE (t - fromisoformat(c.timestamp)) < c.ttl_s

\* ConsentRecord.is_active(now_utc)
is_active(c, t) ==
    IF c.mode = "none" THEN FALSE
    ELSE IF ~Parses(c.timestamp) THEN FALSE
    ELSE (t - fromisoformat(c.timestamp)) <= c.ttl_s

clamp(val, lo, hi) == IF val > hi THEN hi ELSE IF val < lo THEN lo ELSE val

MutNoClamp(p) == p

validate_priority(p) == clamp(p, 0, 10)

\* ------------------------------------------------------------------ risk classifier

\* risk_query(Pose) -> SafetyLevel, a deterministic function of the position:
\* a classifier is given by the points it calls RED and those it calls YELLOW.
risk_query(rq, p) ==
    IF p \in rq.red THEN "RED"
    ELSE IF p \in rq.yellow THEN "YELLOW"
    ELSE "GREEN"

\* ------------------------------------------------------------------ safety_gate.py

\* Optional[str] None (a profile name, a returned reason)
NoneStr == "None"

\* _corridor_green(..., samples: int = 10)
samples == 10

\* self._profiles.get(name, {}) over the ordered dict of profiles,
\* a sequence of <<name, caps>> pairs
ProfileGet(profiles, name) ==
    IF \E i \in 1..Len(profiles) : profiles[i][1] = name
    THEN profiles[CHOOSE i \in 1..Len(profiles) : profiles[i][1] = name][2]
    ELSE None

\* SafetyGate.__init__: the active profile's caps
SafetyGate_init(envelopes, active_profile) ==
    LET profiles == Get(envelopes, "profiles", <<>>)
        defaults == Get(envelopes, "defaults", None)
        dflt     == Get(defaults, "social_touch_profile", NoneStr)
        name     == IF active_profile # NoneStr THEN active_profile
                    ELSE IF dflt # NoneStr THEN dflt
                    ELSE IF Len(profiles) > 0 THEN profiles[1][1]
                    ELSE NoneStr
    IN  ProfileGet(profiles, name)

MutEnvelopeForceStrict(prof, plan) ==
    IF Get(prof, "max_force_N", 0) # 0 /\ plan.peak_force_N >= Get(prof, "max_force_N", 0)
    THEN <<FALSE, "peak_force_N">>
    ELSE <<TRUE, "ok">>

\* SafetyGate._check_envelopes(plan) -> (ok, why)
_check_envelopes(prof, plan) ==
    LET max_force == Get(prof, "max_force_N", 0)
        dwell_min == Get(prof, "dwell_ms_min", 0)
        dwell_max == Get(prof, "dwell_ms_max", 10000)
        imp       == Get(prof, "impedance", None)
        p_n       == Get(imp, "normal_N_per_mm", None)
        p_t       == Get(imp, "tangential_N_per_mm", None)
        n         == plan.impedance.normal_N_per_mm
        t         == plan.impedance.tangential_N_per_mm
    IN  IF max_force # 0 /\ plan.peak_force_N > max_force
        THEN <<FALSE, "peak_force_N">>
        ELSE IF ~(dwell_min <= plan.dwell_ms /\ plan.dwell_ms <= dwell_max)
        THEN <<FALSE, "dwell_ms">>
        ELSE IF "approach_speed_mps" \in DOMAIN prof
                /\ plan.approach_speed_mps > prof["approach_speed_mps"]
        THEN <<FALSE, "approach_speed_mps">>
        ELSE IF "release_speed_mps" \in DOMAIN prof
                /\ plan.release_speed_mps > prof["release_speed_mps"]
        THEN <<FALSE, "release_speed_mps">>
        ELSE IF p_n # None
                /\ ~(p_n[1] <= n[1] /\ n[1] <= n[2] /\ n[2] <= p_n[2])
        THEN <<FALSE, "normal_impedance">>
        ELSE IF p_t # None
                /\ ~(p_t[1] <= t[1] /\ t[1] <= t[2] /\ t[2] <= p_t[2])
        THEN <<FALSE, "tangential_impedance">>
        ELSE <<TRUE, "ok">>

\* the k-th interior sample of the segment start -> target, alpha = k / (n + 1)
CorridorPoint(start, target, k, n) ==
    [i \in 1..3 |-> start[i] + (k * (target[i] - start[i])) \div (n + 1)]

\* SafetyGate._corridor_green(start, target, risk_query, samples)
MutCorridorIncludesStart(start, target, rq, n) ==
    \A k \in 0..n : risk_query(rq, CorridorPoint(start, target, k, n)) # "RED"

_corridor_green(start, target, rq, n) ==
    \A k \in 1..n : risk_query(rq, CorridorPoint(start, target, k, n)) # "RED"

\* SafetyGate.software_ok(plan, risk_query, start_pose) -> (ok, reason)
MutSoftwareIgnoresLatch(L, prof, plan, rq, start_pose) ==
    LET env == _check_envelopes(prof, plan)
    IN  IF ~env[1] THEN <<FALSE, "envelope_veto: " \o env[2]>>
        ELSE IF risk_query(rq, plan.target) = "RED"
        THEN <<FALSE, "safety_map: target RED">>
        ELSE IF start_pose # None /\ ~_corridor_green(start_pose, plan.target, rq, samples)
        THEN <<FALSE, "safety_map: corridor contains RED">>
        ELSE <<TRUE, "ok">>

MutSoftwareChecksConsent(L, prof, plan, rq, start_pose) ==
    IF plan.consent_mode = "none" THEN <<FALSE, "consent: none">>
    ELSE MutSoftwareIgnoresLatch(FALSE, prof, plan, rq, start_pose)

software_ok(L, prof, plan, rq, start_pose) ==
    LET env == _check_envelopes(prof, plan)
    IN  IF L THEN <<FALSE, "latched">>
        ELSE IF ~env[1] THEN <<FALSE, "envelope_veto: " \o env[2]>>
        ELSE IF risk_query(rq, plan.target) = "RED"
        THEN <<FALSE, "safety_map: target RED">>
        ELSE IF start_pose # None /\ ~_corridor_green(start_pose, plan.target, rq, samples)
        THEN <<FALSE, "safety_map: corridor contains RED">>
        ELSE <<TRUE, "ok">>

MutHardwareOvertempFirst(L, snap) ==
    IF L THEN <<FALSE, "latched">>
    ELSE IF snap.overtemp THEN <<FALSE, "hw_veto: overtemp">>
    ELSE IF snap.e_stop THEN <<FALSE, "hw_veto: e_stop">>
    ELSE IF snap.watchdog_fault THEN <<FALSE, "hw_veto: watchdog_fault">>
    ELSE IF snap.overcurrent THEN <<FALSE, "hw_veto: overcurrent">>
    ELSE IF snap.overtorque THEN <<FALSE, "hw_veto: overtorque">>
    ELSE <<TRUE, "ok">>

\* the number of self._hw.read() calls hardware_ok makes: none on the latched
\* return, one (line 170) otherwise
hardware_ok_reads(L) == IF L THEN 0 ELSE 1

\* SafetyGate.hardware_ok() -> (ok, reason), snap the value of self._hw.read()
hardware_ok(L, snap) ==
    IF L THEN <<FALSE, "latched">>
    ELSE IF snap.e_stop THEN <<FALSE, "hw_veto: e_stop">>
    ELSE IF snap.watchdog_fault THEN <<FALSE, "hw_veto: watchdog_fault">>
    ELSE IF snap.overtemp THEN <<FALSE, "hw_veto: overtemp">>
    ELSE IF snap.overcurrent THEN <<FALSE, "hw_veto: overcurrent">>
    ELSE IF snap.overtorque THEN <<FALSE, "hw_veto: overtorque">>
    ELSE <<TRUE, "ok">>

\* SafetyGate.dual_channel_ok(plan, risk_query, start_pose) -> bool
MutDualSkipsHardware(L, prof, plan, rq, start_pose, snap) ==
    IF L THEN FALSE
    ELSE software_ok(L, prof, plan, rq, start_pose)[1]

dual_channel_ok(L, prof, plan, rq, start_pose, snap) ==
    IF L THEN FALSE
    ELSE software_ok(L, prof, plan, rq, start_pose)[1] /\ hardware_ok(L, snap)[1]

\* SafetyGate.monitor_runtime(feedback) on an unlatched gate: the reason it
\* trips with, or NoneStr
runtime_trip_reason(prof, feedback) ==
    LET max_force == Get(prof, "max_force_N", 0)
    IN  IF "max_surface_temp_C" \in DOMAIN prof
           /\ Get(feedback, "ee_temp_C", -1000000000) > prof["max_surface_temp_C"]
        THEN "runtime_overtemp"
        ELSE IF "force_peak_N" \in DOMAIN feedback /\ max_force > 0
                /\ feedback["force_peak_N"] > max_force
        THEN "runtime_overforce"
        ELSE IF Get(feedback, "ee_torque_Nm", 0) > Get(prof, "max_torque_Nm", 1000000000)
        THEN "runtime_overtorque"
        ELSE NoneStr

\* ------------------------------------------------------------------ nudge_scheduler.py

\* PolicyProfile(): the defaults, weights and thresholds in tenths
policy ==
    [allow_shoulder              |-> TRUE,
     require_explicit_for_social |-> TRUE,
     social_cooldown_s           |-> social_cooldown_s,
     debounce_window_s           |-> 2,
     nudge_ttl_ms                |-> 1200,
     w_safety                    |-> 10,
     w_consent                   |-> 8,
     w_social                    |-> 3,
     w_task                      |-> 2,
     distress_support_threshold  |-> 6]

\* CooldownManager.social_cooldown_active(cooldown_s) at time t
social_cooldown_active(cd, cooldown_s, t) == (t - cd.social) < cooldown_s

MutDebounceNeverSuppresses(cd, name, xyz, window_s, t) ==
    <<FALSE, [cd EXCEPT !.fp = <<name, xyz>>, !.ts = t]>>

MutDebounceStartsCooldown(cd, name, xyz, window_s, t) ==
    IF cd.fp = <<name, xyz>> /\ (t - cd.ts) < window_s
    THEN <<TRUE, cd>>
    ELSE <<FALSE, [cd EXCEPT !.fp = <<name, xyz>>, !.ts = t, !.social = t]>>

\* CooldownManager.debounce(name, xyz, window_s) at time t:
\* <<suppress, the manager's state after the call>>
debounce(cd, name, xyz, window_s, t) ==
    LET fp == <<name, xyz>>
    IN  IF cd.fp = fp /\ (t - cd.ts) < window_s
        THEN <<TRUE, cd>>
        ELSE <<FALSE, [cd EXCEPT !.fp = fp, !.ts = t]>>

_xyz_tuple(p) == <<p[1], p[2], p[3]>>

_safe_and_green(safety_level) == safety_level = "GREEN"

\* _choose_contact_normal(name, pose)
_choose_contact_normal(name, pose) ==
    IF name = "shoulder" THEN <<0, 8, 6>> ELSE <<0, 0, 10>>

\* str.lower() on the scope names in use
lower(s) == IF s = "Shoulder_Contact" THEN "shoulder_contact" ELSE s

\* {s.lower() for s in scopes}; a scope list is modelled by the set of its elements
LowerAll(scopes) == {lower(s) : s \in scopes}

\* _consent_allows_shoulder(consent)
_consent_allows_shoulder(consent) ==
    IF consent.mode = "none" THEN FALSE
    ELSE "shoulder_contact" \in LowerAll(consent.scope) \/ consent.mode = "policy"

RECURSIVE MutFilterDeclaredOnly(_, _)
MutFilterDeclaredOnly(affs, rq) ==
    IF affs = <<>> THEN <<>>
    ELSE LET a    == Head(affs)
             rest == MutFilterDeclaredOnly(Tail(affs), rq)
         IN  IF Get(a, "safety_level", "RED") = "RED" THEN rest
             ELSE <<[a |-> a, _pose_obj |-> a.pose,
                     _risk_level |-> risk_query(rq, a.pose)]>> \o rest

\* EngagementScheduler._filter_by_safety(affordances, risk_query): the
\* survivors in input order, each with its _pose_obj and _risk_level
RECURSIVE _filter_by_safety(_, _)
_filter_by_safety(affs, rq) ==
    IF affs = <<>> THEN <<>>
    ELSE LET a        == Head(affs)
             declared == Get(a, "safety_level", "RED")
             level    == risk_query(rq, a.pose)
             rest     == _filter_by_safety(Tail(affs), rq)
         IN  IF declared = "RED" THEN rest
             ELSE IF level = "RED" THEN rest
             ELSE <<[a |-> a, _pose_obj |-> a.pose, _risk_level |-> level]>> \o rest

\* the score _rank_candidates gives one candidate (0.01)
Score(c, human_state, consent) ==
    LET distress    == Get(human_state, "distress", 0)
        social_mode == /\ Get(human_state, "present", FALSE)
                       /\ distress >= policy.distress_support_threshold
                       /\ policy.allow_shoulder
        name        == Get(c.a, "name", NoneStr)
    IN  policy.w_safety * (IF c._risk_level = "GREEN" THEN 10 ELSE 5)
        + (IF social_mode /\ Get(c.a, "category", NoneStr) = "human" /\ name = "shoulder"
           THEN policy.w_social * 10 ELSE 0)
        + policy.w_task * Get(c.a, "utility", 0)
        + (IF _consent_allows_shoulder(consent) /\ name = "shoulder"
           THEN policy.w_consent * 5 ELSE 0)

RECURSIVE MutSortLastOfEquals(_, _, _)
MutSortLastOfEquals(cands, human_state, consent) ==
    IF cands = <<>> THEN <<>>
    ELSE LET sc(i) == Score(cands[i], human_state, consent)
             i     == CHOOSE j \in 1..Len(cands) :
                          /\ \A k \in 1..Len(cands) : sc(k) <= sc(j)
                          /\ \A k \in (j + 1)..Len(cands) : sc(k) < sc(j)
         IN  <<cands[i]>> \o
             MutSortLastOfEquals(SubSeq(cands, 1, i - 1) \o SubSeq(cands, i + 1, Len(cands)),
                                 human_state, consent)

\* list.sort(key=score, reverse=True): descending and stable
RECURSIVE SortDescending(_, _, _)
SortDescending(cands, human_state, consent) ==
    IF cands = <<>> THEN <<>>
    ELSE LET sc(i) == Score(cands[i], human_state, consent)
             i     == CHOOSE j \in 1..Len(cands) :
                          /\ \A k \in 1..Len(cands) : sc(k) <= sc(j)
                          /\ \A k \in 1..(j - 1) : sc(k) < sc(j)
         IN  <<cands[i]>> \o
             SortDescending(SubSeq(cands, 1, i - 1) \o SubSeq(cands, i + 1, Len(cands)),
                            human_state, consent)

\* EngagementScheduler._rank_candidates(human_state, consent, candidates)
_rank_candidates(human_state, consent, candidates) ==
    SortDescending(candidates, human_state, consent)

\* EngagementScheduler._candidate_to_nudge_with_reason(a, human_state, consent)
\* at time t: [nudge, reason, cd (the cooldown manager after the call)]
_candidate_to_nudge_with_reason(c, human_state, consent, cd, t) ==
    LET pose       == c._pose_obj
        xyz        == _xyz_tuple(pose)
        name       == Get(c.a, "name", "unknown")
        category   == Get(c.a, "category", "object")
        risk_level == c._risk_level
        deb        == debounce(cd, name, xyz, policy.debounce_window_s, t)
        plain      == IF _safe_and_green(risk_level) THEN "GREEN" ELSE "YELLOW"
        needs      == policy.require_explicit_for_social /\ ~is_active(consent, t)
        human      == category = "human" /\ name = "shoulder"
    IN  IF deb[1] THEN [nudge |-> None, reason |-> "debounce", cd |-> deb[2]]
        ELSE IF category = "human"
                /\ social_cooldown_active(deb[2], policy.social_cooldown_s, t)
        THEN [nudge |-> None, reason |-> "cooldown", cd |-> deb[2]]
        ELSE [nudge |->
                 [level         |-> IF human /\ needs THEN "YELLOW" ELSE plain,
                  target        |-> pose,
                  normal        |-> _choose_contact_normal(name, pose),
                  rationale     |-> IF human
                                    THEN IF needs
                                         THEN "Consent required for social touch (shoulder support)"
                                         ELSE "Shoulder support (distress cues + consent)"
                                    ELSE "Object interaction",
                  priority      |-> validate_priority(Get(c.a, "utility", 0)),
                  expires_in_ms |-> policy.nudge_ttl_ms],
              reason |-> "ok", cd |-> deb[2]]

RECURSIVE MutStopAtAnyDebounce(_, _, _, _, _, _)
MutStopAtAnyDebounce(ranked, idx, human_state, consent, cd, t) ==
    IF idx > Len(ranked) THEN [nudge |-> None, cand |-> None, cd |-> cd]
    ELSE LET r == _candidate_to_nudge_with_reason(ranked[idx], human_state, consent, cd, t)
         IN  IF r.nudge # None
             THEN [nudge |-> r.nudge, cand |-> ranked[idx].a, cd |-> r.cd]
             ELSE IF r.reason = "debounce"
             THEN [nudge |-> None, cand |-> None, cd |-> r.cd]
             ELSE MutStopAtAnyDebounce(ranked, idx + 1, human_state, consent, r.cd, t)

\* the loop of EngagementScheduler.decide over ranked[idx..]:
\* [nudge, cand (the candidate it was made from), cd]
RECURSIVE Evaluate(_, _, _, _, _, _)
Evaluate(ranked, idx, human_state, consent, cd, t) ==
    IF idx > Len(ranked) THEN [nudge |-> None, cand |-> None, cd |-> cd]
    ELSE LET r == _candidate_to_nudge_with_reason(ranked[idx], human_state, consent, cd, t)
         IN  IF r.nudge # None
             THEN [nudge |-> r.nudge, cand |-> ranked[idx].a, cd |-> r.cd]
             ELSE IF idx = 1 /\ r.reason = "debounce"
             THEN [nudge |-> None, cand |-> None, cd |-> r.cd]
             ELSE Evaluate(ranked, idx + 1, human_state, consent, r.cd, t)

\* EngagementScheduler.decide(human_state, consent, affordances, risk_query) at time t
decide(human_state, consent, affs, rq, cd, t) ==
    LET candidates == _filter_by_safety(affs, rq)
    IN  IF candidates = <<>> THEN [nudge |-> None, cand |-> None, cd |-> cd]
        ELSE Evaluate(_rank_candidates(human_state, consent, candidates), 1,
                      human_state, consent, cd, t)

\* ------------------------------------------------------------------ consent_manager.py

\* Optional[int], Optional[bool]: None is <<>>, a value v is <<v>>
Some(v) == <<v>>

\* ConsentManager.set_profile_from_dict(profile, defaults): the rules it loads
set_profile_from_dict(culture_profile, defaults) ==
    LET own         == Get(culture_profile, "consent", None)
        dflt        == Get(defaults, "consent", None)
        consent_cfg == IF own # None THEN own ELSE dflt
    IN  [social_touch_required_mode |->
             Get(consent_cfg, "social_touch_required_mode", "explicit_only"),
         ttl_seconds |-> Get(consent_cfg, "ttl_seconds", Get(dflt, "ttl_seconds", 60))]

MutGrantMergesScopes(recs, rls, subject_id, mode, source, scopes, ttl_s, t) ==
    [subject_id |-> subject_id,
     mode       |-> mode,
     source     |-> source,
     timestamp  |-> isoformat(t),
     scope      |-> LowerAll(scopes) \cup
                    (IF subject_id \in DOMAIN recs THEN recs[subject_id].scope ELSE {}),
     ttl_s      |-> IF ttl_s # None THEN ttl_s[1] ELSE rls.ttl_seconds]

\* the record grant_explicit / grant_policy build at time t
granted(recs, rls, subject_id, mode, source, scopes, ttl_s, t) ==
    [subject_id |-> subject_id,
     mode       |-> mode,
     source     |-> source,
     timestamp  |-> isoformat(t),
     scope      |-> LowerAll(scopes),
     ttl_s      |-> IF ttl_s # None THEN ttl_s[1] ELSE rls.ttl_seconds]

\* self._records[subject_id] = rec
Put(recs, subject_id, rec) ==
    [k \in DOMAIN recs \cup {subject_id} |-> IF k = subject_id THEN rec ELSE recs[k]]

MutRevokeKeeps(recs, subject_id) == recs

\* self._records.pop(subject_id, None)
Pop(recs, subject_id) == [k \in DOMAIN recs \ {subject_id} |-> recs[k]]

MutQueryReturnsStale(recs, rls, enabled, subject_id, requested_scopes, allow_fallback_policy, t) ==
    IF subject_id \in DOMAIN recs /\ recs[subject_id].mode = "explicit"
       /\ LowerAll(requested_scopes) \subseteq LowerAll(recs[subject_id].scope)
    THEN recs[subject_id]
    ELSE [subject_id |-> subject_id, mode |-> "none", source |-> "ui",
          timestamp |-> isoformat(t), scope |-> LowerAll(requested_scopes),
          ttl_s |-> rls.ttl_seconds]

MutQueryPolicyNeedsNoFlag(recs, rls, enabled, subject_id, requested_scopes, allow_fallback_policy, t) ==
    LET requested == LowerAll(requested_scopes)
        allow_policy == IF allow_fallback_policy = None
                        THEN rls.social_touch_required_mode = "explicit_or_policy"
                        ELSE allow_fallback_policy[1]
        has == subject_id \in DOMAIN recs
        _valid(r) == is_active(r, t) /\ requested \subseteq LowerAll(r.scope)
    IN  IF has /\ recs[subject_id].mode \in {"explicit"} /\ _valid(recs[subject_id])
        THEN recs[subject_id]
        ELSE IF allow_policy /\ has /\ recs[subject_id].mode = "policy"
                /\ _valid(recs[subject_id])
        THEN recs[subject_id]
        ELSE [subject_id |-> subject_id, mode |-> "none", source |-> "ui",
              timestamp |-> isoformat(t), scope |-> requested,
              ttl_s |-> rls.ttl_seconds]

\* ConsentManager.query(subject_id, requested_scopes, allow_fallback_policy) at time t
query(recs, rls, enabled, subject_id, requested_scopes, allow_fallback_policy, t) ==
    LET requested    == LowerAll(requested_scopes)
        rule_mode    == rls.social_touch_required_mode
        allow_policy == IF allow_fallback_policy = None
                        THEN enabled /\ rule_mode = "explicit_or_policy"
                        ELSE allow_fallback_policy[1]
        has          == subject_id \in DOMAIN recs
        _valid(r)    == is_active(r, t) /\ requested \subseteq LowerAll(r.scope)
    IN  IF has /\ recs[subject_id].mode = "explicit" /\ _valid(recs[subject_id])
        THEN recs[subject_id]
        ELSE IF allow_policy /\ has /\ recs[subject_id].mode = "policy"
                /\ _valid(recs[subject_id])
        THEN recs[subject_id]
        ELSE [subject_id |-> subject_id, mode |-> "none", source |-> "ui",
              timestamp |-> isoformat(t), scope |-> requested,
              ttl_s |-> rls.ttl_seconds]

\* ------------------------------------------------------------------ contact_planner.py

\* _load_profile(envelopes, profile_name) -> (profile, name)
_load_profile(envelopes, profile_name) ==
    LET profiles == Get(envelopes, "profiles", <<>>)
        defaults == Get(envelopes, "defaults", None)
        dflt     == Get(defaults, "social_touch_profile", NoneStr)
        name     == IF profile_name # NoneStr THEN profile_name
                    ELSE IF dflt # NoneStr THEN dflt
                    ELSE IF Len(profiles) > 0 THEN profiles[1][1]
                    ELSE NoneStr
    IN  <<ProfileGet(profiles, name), IF name # NoneStr THEN name ELSE "unknown">>

MutWithinKeepsVal(lo, hi, val) == val

_within(lo, hi, val) == IF val < lo THEN lo ELSE IF val > hi THEN hi ELSE val

\* what plan.validate() raising leaves the caller with
ValidationError == [raised |-> "AssertionError"]

\* ContactPlanner.plan(nudge, consent, profile_name, hints); hints holds the
\* fields of PlannerHints that are not None
ContactPlanner_plan(envelopes, nudge, consent, profile_name, hints) ==
    IF nudge = None \/ nudge.target = None THEN None
    ELSE LET loaded      == _load_profile(envelopes, profile_name)
             prof        == loaded[1]
             pname       == loaded[2]
             max_force_N == Get(prof, "max_force_N", 120)
             dwell_min   == Get(prof, "dwell_ms_min", 1000)
             dwell_max   == Get(prof, "dwell_ms_max", 3000)
             appr_cap    == Get(prof, "approach_speed_mps", 15)
             rel_cap     == Get(prof, "release_speed_mps", 20)
             imp_p       == Get(prof, "impedance", None)
             peak_force_target == Get(hints, "peak_force_target", (85 * max_force_N) \div 100)
             dwell_target      == Get(hints, "dwell_ms_target", (dwell_min + dwell_max) \div 2)
             appr_target       == Get(hints, "approach_speed_mps", appr_cap)
             rel_target        == Get(hints, "release_speed_mps", rel_cap)
             p == [target             |-> nudge.target,
                   contact_normal     |-> nudge.normal,
                   peak_force_N       |-> Min(peak_force_target, max_force_N),
                   dwell_ms           |-> _within(dwell_min, dwell_max, dwell_target),
                   approach_speed_mps |-> Min(appr_target, appr_cap),
                   release_speed_mps  |-> Min(rel_target, rel_cap),
                   impedance          |->
                       [normal_N_per_mm     |-> Get(imp_p, "normal_N_per_mm", <<30, 60>>),
                        tangential_N_per_mm |-> Get(imp_p, "tangential_N_per_mm", <<10, 30>>)],
                   rationale          |-> nudge.rationale \o " [profile=" \o pname \o "]",
                   consent_mode       |-> consent.mode]
         IN  IF validate(p) THEN p ELSE ValidationError

\* ------------------------------------------------------------------ inputs

\* time() when the instances are constructed: later than one cooldown after
\* the epoch, as any wall clock is
StartTime == social_cooldown_s + 1

POSE_SHOULDER == <<44, -22, 132>>

POSE_TABLE == <<77, 11, 88>>

POSE_REST == <<0, 0, 0>>

\* the caps of a complete profile (the defaults of the planner's table)
FullCaps ==
    [k \in {"max_force_N", "dwell_ms_min", "dwell_ms_max", "approach_speed_mps",
            "release_speed_mps", "impedance", "max_surface_temp_C", "max_torque_Nm"} |->
        CASE k = "max_force_N"        -> 120
          [] k = "dwell_ms_min"       -> 1000
          [] k = "dwell_ms_max"       -> 3000
          [] k = "approach_speed_mps" -> 15
          [] k = "release_speed_mps"  -> 20
          [] k = "impedance"          -> [normal_N_per_mm     |-> <<30, 60>>,
                                          tangential_N_per_mm |-> <<10, 30>>]
          [] k = "max_surface_temp_C" -> 40
          [] k = "max_torque_Nm"      -> 5]

\* the same profile declaring a force cap of 0
ZeroForceCaps == [FullCaps EXCEPT !["max_force_N"] = 0]

\* a profile that declares a dwell window and nothing else
BareCaps == [k \in {"dwell_ms_min", "dwell_ms_max"} |-> FullCaps[k]]

Envelopes ==
    [k \in {"profiles", "defaults"} |->
        IF k = "profiles"
        THEN << <<"social", FullCaps>>, <<"zero", ZeroForceCaps>>, <<"bare", BareCaps>> >>
        ELSE [social_touch_profile |-> "social"]]

\* the active_profile argument of SafetyGate(...)
ActiveProfiles == {NoneStr, "zero", "bare", "missing"}

BasePlan ==
    [target             |-> POSE_SHOULDER,
     contact_normal     |-> <<0, 8, 6>>,
     peak_force_N       |-> 100,
     dwell_ms           |-> 2000,
     approach_speed_mps |-> 15,
     release_speed_mps  |-> 20,
     impedance          |-> [normal_N_per_mm     |-> <<30, 60>>,
                             tangential_N_per_mm |-> <<10, 30>>],
     rationale          |-> "Shoulder support (distress cues + consent)",
     consent_mode       |-> "explicit"]

\* the plans handed to the gate directly: the base plan and one breach each
GatePlans ==
    { BasePlan,
      [BasePlan EXCEPT !.peak_force_N = 150],
      [BasePlan EXCEPT !.dwell_ms = 5000],
      [BasePlan EXCEPT !.approach_speed_mps = 30],
      [BasePlan EXCEPT !.impedance.tangential_N_per_mm = <<5, 30>>] }

AllGreen == [red |-> {}, yellow |-> {}]

\* the classifiers a gate call is given
GateRisks ==
    { AllGreen,
      [red |-> {POSE_SHOULDER}, yellow |-> {}],
      [red |-> {CorridorPoint(POSE_REST, POSE_SHOULDER, 5, samples)}, yellow |-> {POSE_SHOULDER}],
      [red |-> {POSE_REST}, yellow |-> {}],
      [red |-> {POSE_SHOULDER, CorridorPoint(POSE_REST, POSE_SHOULDER, 10, samples)},
       yellow |-> {}] }

NoFaults ==
    [e_stop |-> FALSE, overtemp |-> FALSE, overcurrent |-> FALSE,
     overtorque |-> FALSE, watchdog_fault |-> FALSE]

\* the snapshots HardwareInterface.read() returns
GateSnaps ==
    { NoFaults,
      [NoFaults EXCEPT !.e_stop = TRUE],
      [NoFaults EXCEPT !.watchdog_fault = TRUE, !.overtorque = TRUE] }

\* the feedback dicts monitor_runtime is fed
Feedbacks ==
    { None,
      [k \in {"force_peak_N"} |-> 100],
      [k \in {"force_peak_N"} |-> 150],
      [k \in {"ee_temp_C"} |-> 45],
      [k \in {"ee_torque_Nm"} |-> 9],
      [k \in {"ee_current_A"} |-> 999] }

TripReasons == {"manual", "operator"}

POSE_CUP == <<55, 33, 99>>

POSE_STOVE == <<99, 0, 88>>

\* the candidates of a scene (the dicts of the scene's affordance list)
AffordancePool ==
    { [name |-> "shoulder", category |-> "human", pose |-> POSE_SHOULDER,
       utility |-> 9, safety_level |-> "GREEN"],
      [name |-> "flat_surface", category |-> "object", pose |-> POSE_TABLE,
       utility |-> 4, safety_level |-> "GREEN"],
      [name |-> "cup", category |-> "object", pose |-> POSE_CUP,
       utility |-> 12, safety_level |-> "YELLOW"],
      [name |-> "stove", category |-> "object", pose |-> POSE_STOVE,
       utility |-> 10, safety_level |-> "RED"] }

\* the candidate lists: every list of at most MaxCands distinct candidates
CandidateLists ==
    { l \in UNION { [1..n -> AffordancePool] : n \in 0..MaxCands } :
          \A i, j \in 1..Len(l) : i # j => l[i] # l[j] }

\* the classifiers decide() is given
SchedRisks ==
    { AllGreen,
      [red |-> {POSE_SHOULDER}, yellow |-> {}],
      [red |-> {POSE_CUP}, yellow |-> {POSE_SHOULDER}] }

HumanStates ==
    { [present |-> TRUE, distress |-> 9],
      [present |-> TRUE, distress |-> 2] }

\* the consent records decide() is given: none, explicit and granted at
\* StartTime, explicit and granted 120 s earlier (expired), explicit and
\* fresh for another scope
ConsentInputs ==
    { [subject_id |-> "person-1", mode |-> "none", source |-> "ui",
       timestamp |-> isoformat(StartTime), scope |-> {"shoulder_contact"}, ttl_s |-> 60],
      [subject_id |-> "person-1", mode |-> "explicit", source |-> "verbal",
       timestamp |-> isoformat(StartTime), scope |-> {"shoulder_contact"}, ttl_s |-> 60],
      [subject_id |-> "person-1", mode |-> "explicit", source |-> "verbal",
       timestamp |-> isoformat(StartTime - 120), scope |-> {"shoulder_contact"},
       ttl_s |-> 60],
      [subject_id |-> "person-1", mode |-> "explicit", source |-> "verbal",
       timestamp |-> isoformat(StartTime), scope |-> {"hand_contact"}, ttl_s |-> 60] }

\* ------------------------------------------------------------------ initial state

NoCall == [op |-> "none", seq |-> 0]

InitGate ==
    /\ \E ap \in ActiveProfiles : profile = SafetyGate_init(Envelopes, ap)
    /\ latched = FALSE
    /\ latched_reason = ""
    /\ latched_ts = 0
    /\ g_call = NoCall
    /\ g_hist = [after_clear |-> FALSE, vetoed |-> FALSE]

InitSchedIdle ==
    /\ last_social_contact_ts = 0
    /\ last_nudge_fingerprint = None
    /\ last_nudge_ts = 0
    /\ scene = [human_state |-> None, consent |-> None, affordances |-> <<>>,
                rq |-> AllGreen]
    /\ s_call = NoCall
    /\ emitted = None

InitPlanIdle == p_call = NoCall

\* ConsentManager.__init__: default rules, no policy, no records
InitConsentIdle ==
    /\ rules = [social_touch_required_mode |-> "explicit_only", ttl_seconds |-> 60]
    /\ institutional_policy_enabled = FALSE
    /\ records = <<>>
    /\ c_call = NoCall

InitSchemaIdle == x_call = NoCall

\* no thread has been started
InitThreadsIdle == threads = <<>>

\* ------------------------------------------------------------------ clock

Tick ==
    /\ now < StartTime + MaxTicks
    /\ now' = now + 1

\* ------------------------------------------------------------------ SafetyGate actions

\* History kept for the properties (no code reads it):
\*   after_clear  the call before the last one was clear_latch() on a latched gate
\*   vetoed       before the last call, and since construction or the last
\*                clear_latch(), software_ok or hardware_ok returned a veto of
\*                its own (not "latched")
Remember ==
    g_hist' =
        [after_clear |-> g_call.op = "clear_latch" /\ g_call.was_latched,
         vetoed      |-> /\ g_call.op # "clear_latch"
                         /\ \/ g_hist.vetoed
                            \/ /\ g_call.op \in {"software_ok", "hardware_ok"}
                               /\ ~g_call.was_latched
                               /\ ~g_call.ret[1]]

MutTripKeepsFirstReason(reason) ==
    /\ latched' = TRUE
    /\ latched_reason' = IF latched THEN latched_reason ELSE reason
    /\ latched_ts' = now

\* SafetyGate.trip(reason)
trip(reason) ==
    /\ latched' = TRUE
    /\ latched_reason' = reason
    /\ latched_ts' = now

Trip ==
    \E reason \in TripReasons :
        /\ trip(reason)
        /\ g_call' = [op |-> "trip", was_latched |-> latched, args |-> <<reason>>]
        /\ Remember
        /\ UNCHANGED <<now, profile>>

\* SafetyGate.clear_latch()
MutClearKeepsLatch ==
    /\ latched_reason' = ""
    /\ latched_ts' = 0
    /\ UNCHANGED latched

clear_latch ==
    /\ latched' = FALSE
    /\ latched_reason' = ""
    /\ latched_ts' = 0

ClearLatch ==
    /\ clear_latch
    /\ g_call' = [op |-> "clear_latch", was_latched |-> latched]
    /\ Remember
    /\ UNCHANGED <<now, profile>>

\* SafetyGate.monitor_runtime(feedback) -> Optional[str]
MonitorRuntime ==
    \E feedback \in Feedbacks :
        LET why == runtime_trip_reason(profile, feedback)
        IN  /\ IF latched \/ why = NoneStr
               THEN UNCHANGED <<latched, latched_reason, latched_ts>>
               ELSE trip(why)
            /\ g_call' = [op |-> "monitor_runtime", was_latched |-> latched,
                          args |-> <<feedback>>,
                          ret |-> IF latched THEN latched_reason ELSE why]
            /\ Remember
            /\ UNCHANGED <<now, profile>>

MutSoftwareOkLatches ==
    \E plan \in GatePlans, rq \in GateRisks, start_pose \in {None, POSE_REST} :
        LET r == software_ok(latched, profile, plan, rq, start_pose)
        IN  /\ g_call' = [op |-> "software_ok", was_latched |-> latched,
                          args |-> [plan |-> plan, rq |-> rq, start_pose |-> start_pose],
                          ret |-> r]
            /\ Remember
            /\ IF r[1] \/ latched
               THEN UNCHANGED <<latched, latched_reason, latched_ts>>
               ELSE trip(r[2])
            /\ UNCHANGED <<now, profile>>

SoftwareOk ==
    \E plan \in GatePlans, rq \in GateRisks, start_pose \in {None, POSE_REST} :
        /\ g_call' = [op |-> "software_ok", was_latched |-> latched,
                      args |-> [plan |-> plan, rq |-> rq, start_pose |-> start_pose],
                      ret |-> software_ok(latched, profile, plan, rq, start_pose)]
        /\ Remember
        /\ UNCHANGED <<now, profile, latched, latched_reason, latched_ts>>

HardwareOk ==
    \E snap \in GateSnaps :
        /\ g_call' = [op |-> "hardware_ok", was_latched |-> latched,
                      args |-> [snap |-> snap],
                      ret |-> hardware_ok(latched, snap)]
        /\ Remember
        /\ UNCHANGED <<now, profile, latched, latched_reason, latched_ts>>

DualChannelOk ==
    \E plan \in GatePlans, rq \in GateRisks, start_pose \in {None, POSE_REST},
       snap \in GateSnaps :
        /\ g_call' = [op |-> "dual_channel_ok", was_latched |-> latched,
                      args |-> [plan |-> plan, rq |-> rq, start_pose |-> start_pose,
                                snap |-> snap],
                      ret |-> dual_channel_ok(latched, profile, plan, rq, start_pose, snap)]
        /\ Remember
        /\ UNCHANGED <<now, profile, latched, latched_reason, latched_ts>>

NextGate ==
    \/ Tick /\ UNCHANGED <<gateVars, schedVars, planVars, consentVars, schemaVars, threadVars>>
    \/ Trip /\ UNCHANGED <<schedVars, planVars, consentVars, schemaVars, threadVars>>
    \/ ClearLatch /\ UNCHANGED <<schedVars, planVars, consentVars, schemaVars, threadVars>>
    \/ MonitorRuntime /\ UNCHANGED <<schedVars, planVars, consentVars, schemaVars, threadVars>>
    \/ SoftwareOk /\ UNCHANGED <<schedVars, planVars, consentVars, schemaVars, threadVars>>
    \/ HardwareOk /\ UNCHANGED <<schedVars, planVars, consentVars, schemaVars, threadVars>>
    \/ DualChannelOk /\ UNCHANGED <<schedVars, planVars, consentVars, schemaVars, threadVars>>

\* the gate alone, called in any order
InitG ==
    /\ now = StartTime /\ InitGate /\ InitSchedIdle /\ InitPlanIdle
    /\ InitConsentIdle /\ InitSchemaIdle
    /\ InitThreadsIdle

SpecGate == InitG /\ [][NextGate]_vars

\* ------------------------------------------------------------------ SafetyGate properties

\* what a claim calls a plan inside the profile's envelopes: every cap the
\* profile declares is respected
InsideEnvelope(prof, plan) ==
    /\ "max_force_N" \in DOMAIN prof => plan.peak_force_N <= prof["max_force_N"]
    /\ "dwell_ms_min" \in DOMAIN prof => prof["dwell_ms_min"] <= plan.dwell_ms
    /\ "dwell_ms_max" \in DOMAIN prof => plan.dwell_ms <= prof["dwell_ms_max"]
    /\ "approach_speed_mps" \in DOMAIN prof =>
           plan.approach_speed_mps <= prof["approach_speed_mps"]
    /\ "release_speed_mps" \in DOMAIN prof =>
           plan.release_speed_mps <= prof["release_speed_mps"]
    /\ "impedance" \in DOMAIN prof =>
           LET pn == prof["impedance"].normal_N_per_mm
               pt == prof["impedance"].tangential_N_per_mm
               n  == plan.impedance.normal_N_per_mm
               t  == plan.impedance.tangential_N_per_mm
           IN  /\ pn[1] <= n[1] /\ n[2] <= pn[2]
               /\ pt[1] <= t[1] /\ t[2] <= pt[2]

\* C1: once the gate is latched (by trip or by monitor_runtime) every
\* software_ok and hardware_ok call returns (False, "latched") and every
\* dual_channel_ok call returns False, whatever the arguments, and the gate
\* stays latched through every step (a tick of the clock included) that is
\* not a clear_latch() call.
C1_LatchedUntilCleared ==
    [][ /\ (latched /\ ~latched') => g_call'.op = "clear_latch"
        /\ (latched' /\ g_call'.op \in {"software_ok", "hardware_ok"})
               => g_call'.ret = <<FALSE, "latched">>
        /\ (latched' /\ g_call'.op = "dual_channel_ok") => g_call'.ret = FALSE
      ]_vars

\* C1 witness: a latched gate, later than the trip, has denied a
\* dual_channel_ok call whose plan, classifier and snapshot are all fine
C1_Witness ==
    /\ latched /\ now > latched_ts
    /\ g_call.op = "dual_channel_ok" /\ g_call.ret = FALSE
    /\ InsideEnvelope(profile, g_call.args.plan)
    /\ g_call.args.rq = AllGreen
    /\ g_call.args.snap = NoFaults

\* C2: clear_latch() leaves the gate unlatched whatever latched it, and on an
\* unlatched gate dual_channel_ok(plan, risk_query) returns True for a plan
\* inside the active profile's envelopes, a target that is not RED and a
\* fault-free snapshot.
C2_ClearRearms ==
    /\ g_call.op = "clear_latch" => ~latched
    /\ ( /\ g_call.op = "dual_channel_ok"
         /\ ~g_call.was_latched
         /\ g_call.args.start_pose = None
         /\ InsideEnvelope(profile, g_call.args.plan)
         /\ risk_query(g_call.args.rq, g_call.args.plan.target) # "RED"
         /\ g_call.args.snap = NoFaults )
       => g_call.ret = TRUE

\* C2 witness: the call right after a clear_latch() that cleared a latched
\* gate is a dual_channel_ok that returned True
C2_Witness ==
    /\ g_hist.after_clear
    /\ g_call.op = "dual_channel_ok"
    /\ g_call.ret = TRUE

\* C3: dual_channel_ok returns True exactly when the gate is not latched,
\* software_ok on the same plan, classifier and start pose returns ok and
\* hardware_ok on the same snapshot returns ok.
C3_DualIsConjunction ==
    g_call.op = "dual_channel_ok" =>
        ( g_call.ret = TRUE <=>
            /\ ~g_call.was_latched
            /\ software_ok(g_call.was_latched, profile, g_call.args.plan,
                           g_call.args.rq, g_call.args.start_pose)[1]
            /\ hardware_ok(g_call.was_latched, g_call.args.snap)[1] )

\* C3 witness: the software channel passes, the hardware channel alone
\* vetoes, and dual_channel_ok returned False
C3_Witness ==
    /\ g_call.op = "dual_channel_ok"
    /\ ~g_call.was_latched
    /\ software_ok(FALSE, profile, g_call.args.plan, g_call.args.rq,
                   g_call.args.start_pose)[1]
    /\ g_call.args.snap.e_stop
    /\ g_call.ret = FALSE

\* C4 (as claimed): once software_ok or hardware_ok has returned a veto, every
\* dual_channel_ok call is denied until clear_latch() is called.
C4_VetoLatches ==
    (g_call.op = "dual_channel_ok" /\ g_hist.vetoed) => g_call.ret = FALSE

\* C5 (as claimed): whenever the active profile declares max_force_N, 0
\* included, and the plan's peak_force_N exceeds it, software_ok on an
\* unlatched gate vetoes naming peak_force_N and dual_channel_ok returns False.
C5_ForceCapVetoes ==
    ( /\ g_call.op \in {"software_ok", "dual_channel_ok"}
      /\ ~g_call.was_latched
      /\ "max_force_N" \in DOMAIN profile
      /\ g_call.args.plan.peak_force_N > profile["max_force_N"] )
    => IF g_call.op = "software_ok"
       THEN g_call.ret = <<FALSE, "envelope_veto: peak_force_N">>
       ELSE g_call.ret = FALSE

\* ------------------------------------------------------------------ EngagementScheduler actions

\* self.cooldowns
cooldowns ==
    [social |-> last_social_contact_ts, fp |-> last_nudge_fingerprint, ts |-> last_nudge_ts]

\* EngagementScheduler.notify_contact_executed()
NotifyContactExecuted ==
    /\ last_social_contact_ts' = now
    /\ s_call' = [op |-> "notify_contact_executed", seq |-> 1 - s_call.seq]
    /\ UNCHANGED <<now, last_nudge_fingerprint, last_nudge_ts, scene, emitted>>

\* the fingerprint (name, position) of a nudge made from candidate a
Fingerprint(a) == <<Get(a, "name", "unknown"), _xyz_tuple(a.pose)>>

\* EngagementScheduler.decide(human_state, consent, affordances, risk_query)
Decide ==
    LET r == decide(scene.human_state, scene.consent, scene.affordances, scene.rq,
                    cooldowns, now)
    IN  /\ last_nudge_fingerprint' = r.cd.fp
        /\ last_nudge_ts' = r.cd.ts
        /\ last_social_contact_ts' = r.cd.social
        /\ s_call' = [op |-> "decide", seq |-> 1 - s_call.seq,
                      ret |-> r.nudge, cand |-> r.cand]
        /\ emitted' = IF r.nudge = None THEN emitted
                      ELSE [fp |-> Fingerprint(r.cand), ts |-> now]
        /\ UNCHANGED <<now, scene>>

\* between two cycles the caller's perception changes: the human's state and
\* the consent record the Consent Manager answers with.  s_call is the last
\* call made on the scene as it is now, so a changed scene has had none yet
Perceive ==
    /\ \E human_state \in HumanStates, consent \in ConsentInputs :
           scene' = [scene EXCEPT !.human_state = human_state, !.consent = consent]
    /\ scene' # scene
    /\ s_call' = [op |-> "none", seq |-> s_call.seq]
    /\ UNCHANGED <<now, last_social_contact_ts, last_nudge_fingerprint, last_nudge_ts,
                   emitted>>

NextSched ==
    \/ Tick /\ UNCHANGED <<gateVars, schedVars, planVars, consentVars, schemaVars, threadVars>>
    \/ Perceive /\ UNCHANGED <<gateVars, planVars, consentVars, schemaVars, threadVars>>
    \/ NotifyContactExecuted /\ UNCHANGED <<gateVars, planVars, consentVars, schemaVars, threadVars>>
    \/ Decide /\ UNCHANGED <<gateVars, planVars, consentVars, schemaVars, threadVars>>

InitS ==
    /\ now = StartTime
    /\ profile = SafetyGate_init(Envelopes, NoneStr)
    /\ latched = FALSE
    /\ latched_reason = ""
    /\ latched_ts = 0
    /\ g_call = NoCall
    /\ g_hist = [after_clear |-> FALSE, vetoed |-> FALSE]
    /\ p_call = NoCall
    /\ InitConsentIdle
    /\ InitSchemaIdle
    /\ InitThreadsIdle
    /\ last_social_contact_ts = 0
    /\ last_nudge_fingerprint = None
    /\ last_nudge_ts = 0
    /\ scene \in [human_state : HumanStates, consent : ConsentInputs,
                  affordances : CandidateLists, rq : SchedRisks]
    /\ s_call = NoCall
    /\ emitted = None

\* one scheduler called in any order on one scene
SpecSched == InitS /\ [][NextSched]_vars

\* ------------------------------------------------------------------ EngagementScheduler properties

\* a step that is one decide() call
DecideStep == s_call'.op = "decide" /\ s_call'.seq # s_call.seq

\* the candidate is RED: declared so, or classified so at its pose
IsRed(a, rq) == Get(a, "safety_level", "RED") = "RED" \/ risk_query(rq, a.pose) = "RED"

\* the positions in the scene's candidate list that are not RED
NonRed(scn) == {i \in 1..Len(scn.affordances) : ~IsRed(scn.affordances[i], scn.rq)}

ScoreOf(scn, i) ==
    Score([a |-> scn.affordances[i],
           _risk_level |-> risk_query(scn.rq, scn.affordances[i].pose)],
          scn.human_state, scn.consent)

\* the best non-RED candidate: the highest score, the earliest of equals
BestNonRed(scn) ==
    scn.affordances[CHOOSE i \in NonRed(scn) :
                        /\ \A j \in NonRed(scn) : ScoreOf(scn, j) <= ScoreOf(scn, i)
                        /\ \A j \in NonRed(scn) : j < i => ScoreOf(scn, j) < ScoreOf(scn, i)]

\* the candidate is neither debounced nor, being human contact, cooling down
Eligible(a, cd, t) ==
    /\ ~(cd.fp = Fingerprint(a) /\ (t - cd.ts) < policy.debounce_window_s)
    /\ Get(a, "category", "object") = "human"
           => (t - cd.social) >= policy.social_cooldown_s

\* C7: no decide() call returns a nudge for a candidate that is declared RED
\* or classified RED at its pose; when the best non-RED candidate is eligible
\* (not debounced, not cooling down), decide returns the nudge for it, so a
\* RED-classified higher-scoring candidate falls through to it, with the
\* "Object interaction" rationale when it is not the shoulder.
C7_RedNeverNudged ==
    [][ DecideStep =>
          /\ s_call'.ret # None =>
                 /\ \E i \in NonRed(scene) : scene.affordances[i] = s_call'.cand
                 /\ ~IsRed(s_call'.cand, scene.rq)
                 /\ s_call'.ret.target = s_call'.cand.pose
          /\ (NonRed(scene) # {} /\ Eligible(BestNonRed(scene), cooldowns, now)) =>
                 /\ s_call'.ret # None
                 /\ s_call'.cand = BestNonRed(scene)
                 /\ s_call'.cand.name # "shoulder"
                        => s_call'.ret.rationale = "Object interaction"
      ]_vars

\* the shoulder, listed first and the highest scorer, is classified RED and
\* decide returned the table's nudge
C7_Witness ==
    /\ s_call.op = "decide"
    /\ s_call.ret # None
    /\ Len(scene.affordances) = 2
    /\ scene.affordances[1].name = "shoulder"
    /\ risk_query(scene.rq, scene.affordances[1].pose) = "RED"
    /\ ScoreOf(scene, 1) > ScoreOf(scene, 2)
    /\ s_call.cand.name = "flat_surface"
    /\ s_call.ret.rationale = "Object interaction"

\* C8: every nudge decide() returns has level GREEN or YELLOW and a priority
\* within [0, 1] (0..10 tenths).
C8_NudgeLevelAndPriority ==
    (s_call.op = "decide" /\ s_call.ret # None) =>
        /\ s_call.ret.level \in {"GREEN", "YELLOW"}
        /\ 0 <= s_call.ret.priority /\ s_call.ret.priority <= 10

\* a candidate of utility 1.2 was nudged, after an earlier contact, with priority 1.0
C8_Witness ==
    /\ s_call.op = "decide"
    /\ s_call.ret # None
    /\ s_call.cand.utility > 10
    /\ s_call.ret.priority = 10
    /\ last_social_contact_ts > 0

\* C9: of two consecutive decide() calls on the same inputs, the second less
\* than debounce_window_s after the first, the second returns no nudge when
\* the first returned the nudge of the top-ranked candidate.
C9_SecondCallDebounced ==
    [][ ( /\ s_call.op = "decide"
          /\ s_call.ret # None
          /\ s_call.cand = BestNonRed(scene)
          /\ DecideStep
          /\ (now - emitted.ts) < policy.debounce_window_s )
        => s_call'.ret = None
      ]_vars

\* a second call, later than the first and inside the window, returned no
\* nudge for the top-ranked candidate the first emitted
C9_Witness ==
    /\ s_call.op = "decide"
    /\ s_call.ret = None
    /\ NonRed(scene) # {}
    /\ emitted # None
    /\ emitted.fp = Fingerprint(BestNonRed(scene))
    /\ last_nudge_fingerprint = emitted.fp
    /\ last_nudge_ts = emitted.ts
    /\ now > emitted.ts
    /\ (now - emitted.ts) < policy.debounce_window_s

\* C10: decide() never returns a nudge with the fingerprint of the nudge it
\* returned last when less than debounce_window_s has passed since then.
C10_NoRepeatWithinWindow ==
    [][ ( /\ DecideStep
          /\ s_call'.ret # None
          /\ emitted # None
          /\ emitted.fp = Fingerprint(s_call'.cand) )
        => (now - emitted.ts) >= policy.debounce_window_s
      ]_vars

\* ------------------------------------------------------------------ the pipeline decide -> plan -> dual_channel_ok

\* planner.plan(nudge, consent, profile_name=defaults' social_touch_profile)
\* on the nudge decide() returned
PlanContact ==
    /\ s_call.op = "decide"
    /\ s_call.ret # None
    /\ p_call' = [op |-> "plan", seq |-> 1 - p_call.seq,
                  nudge |-> s_call.ret, consent |-> scene.consent,
                  ret |-> ContactPlanner_plan(Envelopes, s_call.ret, scene.consent,
                               Get(Get(Envelopes, "defaults", None),
                                   "social_touch_profile", NoneStr),
                               None)]
    /\ UNCHANGED <<now, gateVars, schedVars, consentVars, schemaVars, threadVars>>

\* gate.dual_channel_ok(plan, risk_query, start_pose=None) on the plan the
\* planner returned
Authorize ==
    /\ p_call.op = "plan"
    /\ p_call.ret \notin {None, ValidationError}
    /\ \E snap \in GateSnaps :
           g_call' = [op |-> "dual_channel_ok", was_latched |-> latched,
                      args |-> [plan |-> p_call.ret, rq |-> scene.rq,
                                start_pose |-> None, snap |-> snap],
                      ret |-> dual_channel_ok(latched, profile, p_call.ret, scene.rq,
                                              None, snap)]
    /\ Remember
    /\ UNCHANGED <<now, profile, latched, latched_reason, latched_ts, schedVars, planVars, consentVars, schemaVars, threadVars>>

NextPipe ==
    \/ Tick /\ UNCHANGED <<gateVars, schedVars, planVars, consentVars, schemaVars, threadVars>>
    \/ Decide /\ UNCHANGED <<gateVars, planVars, consentVars, schemaVars, threadVars>>
    \/ PlanContact
    \/ Authorize
    \/ Trip /\ UNCHANGED <<schedVars, planVars, consentVars, schemaVars, threadVars>>
    \/ ClearLatch /\ UNCHANGED <<schedVars, planVars, consentVars, schemaVars, threadVars>>

\* the candidates of the quickstart scene: the shoulder and the table
QuickstartAffordances ==
    <<CHOOSE a \in AffordancePool : a.name = "shoulder",
      CHOOSE a \in AffordancePool : a.name = "flat_surface">>

InitP ==
    /\ now = StartTime
    /\ profile = SafetyGate_init(Envelopes, NoneStr)
    /\ latched = FALSE
    /\ latched_reason = ""
    /\ latched_ts = 0
    /\ g_call = NoCall
    /\ g_hist = [after_clear |-> FALSE, vetoed |-> FALSE]
    /\ p_call = NoCall
    /\ InitConsentIdle
    /\ InitSchemaIdle
    /\ InitThreadsIdle
    /\ last_social_contact_ts = 0
    /\ last_nudge_fingerprint = None
    /\ last_nudge_ts = 0
    /\ scene \in [human_state : HumanStates, consent : ConsentInputs,
                  affordances : {QuickstartAffordances}, rq : SchedRisks]
    /\ s_call = NoCall
    /\ emitted = None

\* scheduler, planner and gate of one robot, run cycle after cycle on one scene
SpecPipe == InitP /\ [][NextPipe]_vars

\* ------------------------------------------------------------------ pipeline properties

\* the gate has just been asked about the plan the planner made last
GateSawPlan ==
    /\ g_call.op = "dual_channel_ok"
    /\ p_call.op = "plan"
    /\ g_call.args.plan = p_call.ret

\* C6 as stated: along decide -> plan -> dual_channel_ok the gate never
\* authorizes a plan for the shoulder when the consent record handed down the
\* pipeline is not active (mode NONE or TTL expired) at the time of the call.
C6_GateRechecksConsent ==
    [][ ( /\ g_call' # g_call
          /\ g_call'.op = "dual_channel_ok"
          /\ p_call.op = "plan"
          /\ g_call'.args.plan = p_call.ret
          /\ p_call.ret.target = POSE_SHOULDER
          /\ ~is_active(p_call.consent, now) )
        => g_call'.ret = FALSE
      ]_vars

\* C6 corrected: the gate does not look at consent.  Along the pipeline
\* dual_channel_ok authorizes the plan exactly when the gate is not latched,
\* the plan is inside the active profile's envelopes, its target is not
\* classified RED and the hardware reports no fault, whatever the consent
\* record and the plan's consent_mode are.
C6_GateIgnoresConsent ==
    GateSawPlan =>
        ( g_call.ret = TRUE <=>
            /\ ~g_call.was_latched
            /\ InsideEnvelope(profile, g_call.args.plan)
            /\ risk_query(g_call.args.rq, g_call.args.plan.target) # "RED"
            /\ g_call.args.snap = NoFaults )

\* the plan built from the YELLOW "Consent required" shoulder nudge, with
\* consent_mode NONE, was authorized
C6_Witness ==
    /\ GateSawPlan
    /\ g_call.ret = TRUE
    /\ p_call.nudge.level = "YELLOW"
    /\ p_call.nudge.rationale = "Consent required for social touch (shoulder support)"
    /\ p_call.consent.mode = "none"
    /\ ~is_active(p_call.consent, now)
    /\ g_call.args.plan.target = POSE_SHOULDER
    /\ g_call.args.plan.consent_mode = "none"

\* ------------------------------------------------------------------ EngagementScheduler properties: cooldown and fallback

\* notify_contact_executed() has been called and social_cooldown_s has not elapsed
InCooldown == last_social_contact_ts > 0 /\ (now - last_social_contact_ts) < policy.social_cooldown_s

\* the object candidates of the scene that are not RED and not themselves a
\* repeat of the stored fingerprint inside the debounce window
EligibleObjects(scn, cd, t) ==
    {i \in NonRed(scn) : /\ Get(scn.affordances[i], "category", "object") # "human"
                         /\ Eligible(scn.affordances[i], cd, t)}

\* C11: a decide() call made after notify_contact_executed() and before
\* social_cooldown_s has elapsed returns no nudge for the human-contact
\* candidate, and returns an object candidate's nudge whenever an eligible
\* object candidate is present.
C11_CooldownAllowsObject ==
    [][ (DecideStep /\ InCooldown) =>
          /\ s_call'.ret # None => Get(s_call'.cand, "category", "object") # "human"
          /\ EligibleObjects(scene, cooldowns, now) # {} =>
                 /\ s_call'.ret # None
                 /\ Get(s_call'.cand, "category", "object") # "human"
      ]_vars

\* a second detection of the same shoulder: the fingerprint of the first,
\* a lower utility
ShoulderAgain ==
    [name |-> "shoulder", category |-> "human", pose |-> POSE_SHOULDER,
     utility |-> 8, safety_level |-> "GREEN"]

\* candidate lists in which two candidates share a fingerprint
FallbackLists ==
    { <<QuickstartAffordances[1], ShoulderAgain, QuickstartAffordances[2]>>,
      <<QuickstartAffordances[2], ShoulderAgain, QuickstartAffordances[1]>>,
      <<ShoulderAgain, QuickstartAffordances[2]>> }

InitF ==
    /\ now = StartTime
    /\ profile = SafetyGate_init(Envelopes, NoneStr)
    /\ latched = FALSE
    /\ latched_reason = ""
    /\ latched_ts = 0
    /\ g_call = NoCall
    /\ g_hist = [after_clear |-> FALSE, vetoed |-> FALSE]
    /\ p_call = NoCall
    /\ InitConsentIdle
    /\ InitSchemaIdle
    /\ InitThreadsIdle
    /\ last_social_contact_ts = 0
    /\ last_nudge_fingerprint = None
    /\ last_nudge_ts = 0
    /\ scene \in [human_state : HumanStates, consent : ConsentInputs,
                  affordances : FallbackLists, rq : {AllGreen}]
    /\ s_call = NoCall
    /\ emitted = None

\* one scheduler on scenes whose candidates repeat a fingerprint
SpecFallback == InitF /\ [][NextSched]_vars

\* the ranked survivors decide() evaluates
Ranked(scn) ==
    _rank_candidates(scn.human_state, scn.consent,
                     _filter_by_safety(scn.affordances, scn.rq))

\* the cooldown manager as the k-th ranked candidate finds it: every
\* candidate evaluated before it has been through debounce()
RECURSIVE CdBefore(_, _, _, _)
CdBefore(scn, k, cd, t) ==
    IF k = 1 THEN cd
    ELSE _candidate_to_nudge_with_reason(Ranked(scn)[k - 1], scn.human_state,
                                         scn.consent, CdBefore(scn, k - 1, cd, t), t).cd

\* the reason _candidate_to_nudge_with_reason gives for the k-th ranked candidate
ReasonOf(scn, k, cd, t) ==
    _candidate_to_nudge_with_reason(Ranked(scn)[k], scn.human_state, scn.consent,
                                    CdBefore(scn, k, cd, t), t).reason

\* C12: the fallback rule of decide().  A top-ranked candidate rejected for
\* debounce ends the cycle with no nudge; otherwise (a top-ranked candidate
\* rejected for cooldown, a lower-ranked one rejected for debounce or
\* cooldown) the evaluation goes on, and the nudge returned is that of the
\* first ranked candidate that is not rejected, none if all are.
C12_FallbackRule ==
    [][ DecideStep =>
          LET n     == Len(Ranked(scene))
              ok    == {k \in 1..n : ReasonOf(scene, k, cooldowns, now) = "ok"}
              first == CHOOSE k \in ok : \A j \in ok : k <= j
          IN  /\ (n > 0 /\ ReasonOf(scene, 1, cooldowns, now) = "debounce")
                     => s_call'.ret = None
              /\ (n > 0 /\ ReasonOf(scene, 1, cooldowns, now) # "debounce") =>
                     IF ok = {} THEN s_call'.ret = None
                     ELSE /\ s_call'.ret # None
                          /\ s_call'.cand = Ranked(scene)[first].a
      ]_vars

\* the top-ranked shoulder was rejected for cooldown, its second detection
\* for debounce, and decide returned the table ranked after them
C12_Witness ==
    /\ s_call.op = "decide"
    /\ s_call.ret # None
    /\ Len(Ranked(scene)) = 3
    /\ Fingerprint(Ranked(scene)[1].a) = Fingerprint(Ranked(scene)[2].a)
    /\ Ranked(scene)[1].a.category = "human"
    /\ s_call.cand = Ranked(scene)[3].a
    /\ InCooldown
    /\ last_nudge_ts = now

\* ------------------------------------------------------------------ EngagementScheduler properties: consent and level

\* the consent record is active for the shoulder's scope at time t
ActiveForShoulder(c, t) ==
    /\ c.mode # "none"
    /\ Parses(c.timestamp)
    /\ (t - fromisoformat(c.timestamp)) <= c.ttl_s
    /\ "shoulder_contact" \in c.scope

\* C13: a nudge for the shoulder is GREEN only if the consent record passed
\* in is active for the shoulder's scope (mode not NONE, TTL not expired,
\* scope containing shoulder_contact) and the risk level is GREEN; when
\* consent is absent, expired or does not cover the scope the nudge is YELLOW
\* with the "Consent required" rationale.
C13_GreenNeedsScopedConsent ==
    [][ ( /\ DecideStep
          /\ s_call'.ret # None
          /\ s_call'.cand.category = "human"
          /\ s_call'.cand.name = "shoulder" )
        => /\ s_call'.ret.level = "GREEN" =>
                  /\ ActiveForShoulder(scene.consent, now)
                  /\ risk_query(scene.rq, s_call'.cand.pose) = "GREEN"
           /\ ~ActiveForShoulder(scene.consent, now) =>
                  /\ s_call'.ret.level = "YELLOW"
                  /\ s_call'.ret.rationale
                         = "Consent required for social touch (shoulder support)"
      ]_vars

\* ------------------------------------------------------------------ ConsentManager inputs and actions

Subjects == {"person-1", "person-2"}

\* the scope lists asked about: one in mixed case, one naming two scopes
ScopeLists ==
    { {"Shoulder_Contact"}, {"shoulder_contact", "hand_contact"} }

\* culture profiles: one without a consent section, one allowing policy consent
CultureProfiles ==
    { [name |-> "default"],
      [name |-> "clinic", consent |-> [social_touch_required_mode |-> "explicit_or_policy"]] }

CultureDefaults == [consent |-> [ttl_seconds |-> 60]]

\* the grants made: (subject_id, scopes, ttl_s)
GrantArgs ==
    { <<"person-1", {"Shoulder_Contact"}, Some(1)>>,
      <<"person-1", {"shoulder_contact", "hand_contact"}, Some(1)>>,
      <<"person-1", {"shoulder_contact"}, None>>,
      <<"person-2", {"shoulder_contact"}, None>> }

\* the allow_fallback_policy argument of query
AllowArgs == {None, Some(TRUE), Some(FALSE)}

\* ConsentManager.set_profile_from_dict(profile, defaults)
SetProfileFromDict ==
    \E culture_profile \in CultureProfiles :
        /\ rules' = set_profile_from_dict(culture_profile, CultureDefaults)
        /\ c_call' = [op |-> "set_profile_from_dict", seq |-> 1 - c_call.seq]
        /\ UNCHANGED <<now, institutional_policy_enabled, records>>

\* ConsentManager.enable_institutional_policy(enabled)
EnableInstitutionalPolicy ==
    \E enabled \in BOOLEAN :
        /\ institutional_policy_enabled' = enabled
        /\ c_call' = [op |-> "enable_institutional_policy", seq |-> 1 - c_call.seq]
        /\ UNCHANGED <<now, rules, records>>

\* what a grant overwrites: the mode and scope of the record held for the subject
Replaced(recs, subject_id) ==
    IF subject_id \in DOMAIN recs
    THEN [mode |-> recs[subject_id].mode, scope |-> recs[subject_id].scope]
    ELSE [mode |-> "absent", scope |-> {}]

\* ConsentManager.grant_explicit(subject_id, scopes, source, ttl_s)
GrantExplicit ==
    \E g \in GrantArgs :
        LET subject_id == g[1]
            rec == granted(records, rules, subject_id, "explicit", "verbal", g[2], g[3], now)
        IN  /\ records' = Put(records, subject_id, rec)
            /\ c_call' = [op |-> "grant_explicit", seq |-> 1 - c_call.seq,
                          subject_id |-> subject_id, scopes |-> g[2], ttl_s |-> g[3],
                          replaced |-> Replaced(records, subject_id)]
            /\ UNCHANGED <<now, rules, institutional_policy_enabled>>

\* ConsentManager.grant_policy(subject_id, scopes, ttl_s)
GrantPolicy ==
    \E g \in GrantArgs :
        LET subject_id == g[1]
            rec == granted(records, rules, subject_id, "policy", "profile", g[2], g[3], now)
        IN  /\ records' = Put(records, subject_id, rec)
            /\ c_call' = [op |-> "grant_policy", seq |-> 1 - c_call.seq,
                          subject_id |-> subject_id, scopes |-> g[2], ttl_s |-> g[3],
                          replaced |-> Replaced(records, subject_id)]
            /\ UNCHANGED <<now, rules, institutional_policy_enabled>>

\* ConsentManager.revoke(subject_id)
Revoke ==
    \E subject_id \in Subjects :
        /\ records' = Pop(records, subject_id)
        /\ c_call' = [op |-> "revoke", seq |-> 1 - c_call.seq, subject_id |-> subject_id,
                      had |-> subject_id \in DOMAIN records]
        /\ UNCHANGED <<now, rules, institutional_policy_enabled>>

\* ConsentManager.query(subject_id, requested_scopes, allow_fallback_policy)
Query ==
    \E subject_id \in Subjects, requested_scopes \in ScopeLists,
       allow_fallback_policy \in AllowArgs :
        /\ c_call' = [op |-> "query", seq |-> 1 - c_call.seq,
                      subject_id |-> subject_id,
                      requested_scopes |-> requested_scopes,
                      allow_fallback_policy |-> allow_fallback_policy,
                      ret |-> query(records, rules, institutional_policy_enabled,
                                    subject_id, requested_scopes, allow_fallback_policy,
                                    now)]
        /\ UNCHANGED <<now, rules, institutional_policy_enabled, records>>

NextConsent ==
    \/ Tick /\ UNCHANGED <<gateVars, schedVars, planVars, consentVars, schemaVars, threadVars>>
    \/ SetProfileFromDict /\ UNCHANGED <<gateVars, schedVars, planVars, schemaVars, threadVars>>
    \/ EnableInstitutionalPolicy /\ UNCHANGED <<gateVars, schedVars, planVars, schemaVars, threadVars>>
    \/ GrantExplicit /\ UNCHANGED <<gateVars, schedVars, planVars, schemaVars, threadVars>>
    \/ GrantPolicy /\ UNCHANGED <<gateVars, schedVars, planVars, schemaVars, threadVars>>
    \/ Revoke /\ UNCHANGED <<gateVars, schedVars, planVars, schemaVars, threadVars>>
    \/ Query /\ UNCHANGED <<gateVars, schedVars, planVars, schemaVars, threadVars>>

InitC ==
    /\ now = StartTime
    /\ profile = SafetyGate_init(Envelopes, NoneStr)
    /\ latched = FALSE
    /\ latched_reason = ""
    /\ latched_ts = 0
    /\ g_call = NoCall
    /\ g_hist = [after_clear |-> FALSE, vetoed |-> FALSE]
    /\ InitSchedIdle
    /\ InitPlanIdle
    /\ InitConsentIdle
    /\ InitSchemaIdle
    /\ InitThreadsIdle

\* one consent manager, called in any order
SpecConsent == InitC /\ [][NextConsent]_vars

\* ------------------------------------------------------------------ ConsentManager properties

\* a step in which query() is called
QueryStep == c_call'.op = "query" /\ c_call'.seq # c_call.seq

\* the stored record of subject s has the mode, is unexpired at time t and covers req
HasValid(mode, s, req, t) ==
    /\ s \in DOMAIN records
    /\ records[s].mode = mode
    /\ is_active(records[s], t)
    /\ req \subseteq records[s].scope

\* allow_policy as query() derives it from its argument, the flag and the rules
PolicyPermitted(allow_fallback_policy) ==
    IF allow_fallback_policy = None
    THEN institutional_policy_enabled
         /\ rules.social_touch_required_mode = "explicit_or_policy"
    ELSE allow_fallback_policy[1]

\* C14 (as stated): query(subject, requested_scopes) returns an EXPLICIT record if and
\* only if the stored record is EXPLICIT, unexpired and its scope is a superset of the
\* requested scopes as given; otherwise it returns a NONE record whose scope equals the
\* requested scopes as given; it never returns an expired record.
C14_ExplicitIffLiteralSuperset ==
    [][ QueryStep /\ c_call'.allow_fallback_policy = None =>
          LET q == c_call'
          IN  /\ (q.ret.mode = "explicit") <=>
                     HasValid("explicit", q.subject_id, q.requested_scopes, now)
              /\ q.ret.mode # "explicit" =>
                     q.ret.mode = "none" /\ q.ret.scope = q.requested_scopes
              /\ q.ret.mode # "none" => is_active(q.ret, now) ]_vars

\* C14 (amended): scopes are compared case-insensitively. query returns the stored
\* record, in mode EXPLICIT, if and only if that record is EXPLICIT, unexpired and its
\* scope covers the lower-cased requested scopes; it returns a stored POLICY record only
\* when policy fallback is permitted; otherwise it returns a NONE record whose scope is
\* the lower-cased requested scopes. It always returns a record and never an expired one.
C14_ExplicitIffScopedAndFresh ==
    [][ QueryStep =>
          LET q   == c_call'
              req == LowerAll(q.requested_scopes)
          IN  /\ q.ret.mode \in {"explicit", "policy", "none"}
              /\ (q.ret.mode = "explicit") <=> HasValid("explicit", q.subject_id, req, now)
              /\ q.ret.mode = "policy" =>
                     /\ PolicyPermitted(q.allow_fallback_policy)
                     /\ HasValid("policy", q.subject_id, req, now)
              /\ q.ret.mode # "none" =>
                     q.ret = records[q.subject_id] /\ is_active(q.ret, now)
              /\ q.ret.mode = "none" =>
                     q.ret.subject_id = q.subject_id /\ q.ret.scope = req ]_vars

\* a mixed-case request answered with the explicit record, after an earlier tick
C14_Witness ==
    /\ c_call.op = "query"
    /\ c_call.requested_scopes = {"Shoulder_Contact"}
    /\ c_call.ret.mode = "explicit"
    /\ fromisoformat(c_call.ret.timestamp) > StartTime

\* a step in which grant_explicit() or grant_policy() is called
GrantStep ==
    /\ c_call'.op \in {"grant_explicit", "grant_policy"}
    /\ c_call'.seq # c_call.seq

\* every query about subject s has the same answer before and after the step
SameAnswers(s) ==
    \A req \in ScopeLists, allow \in AllowArgs :
        query(records', rules', institutional_policy_enabled', s, req, allow, now')
            = query(records, rules, institutional_policy_enabled, s, req, allow, now)

\* C15: a grant replaces the subject's record by one built from the call alone (mode of
\* the call, lower-cased scopes of the call, no scope or mode of the replaced record
\* carried over), so after a policy grant no query that forbids policy fallback is
\* answered with anything but NONE, whatever explicit grant came before; a grant or a
\* revoke for one subject leaves every answer about the other subjects unchanged.
C15_LastGrantWins ==
    [][ /\ GrantStep =>
              LET g == c_call'
                  s == g.subject_id
              IN  /\ s \in DOMAIN records'
                  /\ records'[s].mode =
                         (IF g.op = "grant_explicit" THEN "explicit" ELSE "policy")
                  /\ records'[s].scope = LowerAll(g.scopes)
                  /\ records'[s].timestamp = isoformat(now)
                  /\ records'[s].ttl_s =
                         (IF g.ttl_s = None THEN rules.ttl_seconds ELSE g.ttl_s[1])
                  /\ g.op = "grant_policy" =>
                         \A req \in ScopeLists :
                             /\ query(records', rules, institutional_policy_enabled, s,
                                      req, Some(FALSE), now).mode = "none"
                             /\ ~PolicyPermitted(None) =>
                                    query(records', rules, institutional_policy_enabled,
                                          s, req, None, now).mode = "none"
                  /\ \A o \in Subjects \ {s} : SameAnswers(o)
        /\ (c_call'.op = "revoke" /\ c_call'.seq # c_call.seq) =>
              \A o \in Subjects \ {c_call'.subject_id} : SameAnswers(o) ]_vars

\* a policy grant for shoulder_contact alone has just replaced an explicit record that
\* covered hand_contact too, while the other subject holds a record of its own
C15_Witness ==
    /\ c_call.op = "grant_policy"
    /\ c_call.subject_id = "person-1"
    /\ c_call.replaced.mode = "explicit"
    /\ c_call.replaced.scope = {"shoulder_contact", "hand_contact"}
    /\ records["person-1"].mode = "policy"
    /\ records["person-1"].scope = {"shoulder_contact"}
    /\ "person-2" \in DOMAIN records

\* a step in which revoke() is called
RevokeStep == c_call'.op = "revoke" /\ c_call'.seq # c_call.seq

\* a step in which a grant is made for subject s
GrantFor(s) == GrantStep /\ c_call'.subject_id = s

\* C16: revoke(subject) leaves no record for the subject, so that every query about the
\* subject, for every requested scope list and every allow_fallback_policy, is answered
\* with a NONE record; the subject stays without a record until a grant is made for it,
\* and a query about a subject without a record is answered NONE. Revoking a subject
\* that has no record changes nothing.
C16_RevokedUntilGranted ==
    [][ /\ RevokeStep =>
              LET s == c_call'.subject_id
              IN  /\ s \notin DOMAIN records'
                  /\ \A req \in ScopeLists, allow \in AllowArgs :
                         query(records', rules, institutional_policy_enabled, s, req,
                               allow, now).mode = "none"
                  /\ ~c_call'.had => records' = records
        /\ \A s \in Subjects :
              (s \notin DOMAIN records /\ ~GrantFor(s)) => s \notin DOMAIN records'
        /\ QueryStep /\ c_call'.subject_id \notin DOMAIN records =>
              c_call'.ret.mode = "none" ]_vars

\* a revoke has just removed the record of person-1 while person-2 keeps its own
C16_Witness ==
    /\ c_call.op = "revoke"
    /\ c_call.subject_id = "person-1"
    /\ c_call.had
    /\ "person-1" \notin DOMAIN records
    /\ "person-2" \in DOMAIN records

\* C17: a query with allow_fallback_policy left out is answered with a POLICY record
\* only if institutional policy is enabled, the rules require explicit_or_policy and the
\* stored record is POLICY, unexpired and covers the requested scopes; while the rules
\* require explicit_only, a call of enable_institutional_policy leaves the answer of
\* every query (every subject, scope list and allow_fallback_policy) unchanged.
C17_PolicyNeedsFlagAndRules ==
    [][ /\ (QueryStep /\ c_call'.allow_fallback_policy = None
                /\ c_call'.ret.mode = "policy") =>
              /\ institutional_policy_enabled
              /\ rules.social_touch_required_mode = "explicit_or_policy"
              /\ HasValid("policy", c_call'.subject_id,
                          LowerAll(c_call'.requested_scopes), now)
        /\ (c_call'.op = "enable_institutional_policy" /\ c_call'.seq # c_call.seq
                /\ rules.social_touch_required_mode = "explicit_only") =>
              \A s \in Subjects : SameAnswers(s) ]_vars

\* a query without allow_fallback_policy answered with the stored POLICY record
C17_Witness ==
    /\ c_call.op = "query"
    /\ c_call.allow_fallback_policy = None
    /\ c_call.ret.mode = "policy"
    /\ institutional_policy_enabled

\* C18: under rules that require explicit_only, query is never answered with a POLICY
\* record, whatever allow_fallback_policy is; with allow_fallback_policy True a POLICY
\* record satisfies the query only under explicit_or_policy rules.
C18_ExplicitOnlyNeverPolicy ==
    [][ (QueryStep /\ c_call'.ret.mode = "policy") =>
            rules.social_touch_required_mode = "explicit_or_policy" ]_vars

\* ------------------------------------------------------------------ schemas: records and plans

\* Vector3(x, y, z) and RPY(r, p, y)
Vector3(x, y, z) == [x |-> x, y |-> y, z |-> z]

RPY(r, p, y) == [r |-> r, p |-> p, y |-> y]

MutAsListSwapped(v) == <<v.y, v.x, v.z>>

\* Vector3.as_list()
as_list(v) == <<v.x, v.y, v.z>>

\* Vector3.from_list(vals); vals has 3 elements
from_list(vals) == Vector3(vals[1], vals[2], vals[3])

\* RPY.as_list()
RPY_as_list(a) == <<a.r, a.p, a.y>>

\* RPY.from_list(vals); vals has 3 elements
RPY_from_list(vals) == RPY(vals[1], vals[2], vals[3])

\* Pose.to_dict()
Pose_to_dict(pose) ==
    [frame |-> pose.frame, xyz |-> as_list(pose.xyz), rpy |-> RPY_as_list(pose.rpy)]

\* Pose.from_dict(d)
Pose_from_dict(d) ==
    [frame |-> Get(d, "frame", "W"), xyz |-> from_list(d.xyz), rpy |-> RPY_from_list(d.rpy)]

\* ConsentRecord.to_dict(): asdict with the enums replaced by their tags (a str-Enum
\* member is its tag)
ConsentRecord_to_dict(c) ==
    [subject_id |-> c.subject_id, mode |-> c.mode, source |-> c.source,
     timestamp |-> c.timestamp, scope |-> c.scope, ttl_s |-> c.ttl_s]

\* ConsentRecord.from_dict(d), called at time t
ConsentRecord_from_dict(d, t) ==
    [subject_id |-> d.subject_id,
     mode       |-> Get(d, "mode", "none"),
     source     |-> Get(d, "source", "ui"),
     timestamp  |-> Get(d, "timestamp", isoformat(t)),
     scope      |-> Get(d, "scope", {}),
     ttl_s      |-> Get(d, "ttl_s", 60)]

\* Nudge.to_dict()
Nudge_to_dict(n) ==
    [level         |-> n.level,
     target        |-> Pose_to_dict(n.target),
     normal        |-> as_list(n.normal),
     rationale     |-> n.rationale,
     priority      |-> n.priority,
     expires_in_ms |-> n.expires_in_ms]

\* Nudge.from_dict(d)
Nudge_from_dict(d) ==
    [level         |-> Get(d, "level", "RED"),
     target        |-> Pose_from_dict(d.target),
     normal        |-> from_list(Get(d, "normal", <<0, 0, 10>>)),
     rationale     |-> Get(d, "rationale", ""),
     priority      |-> Get(d, "priority", 0),
     expires_in_ms |-> Get(d, "expires_in_ms", 0)]

\* ContactPlan(...): the dataclass constructor stores the fields it is given; the class
\* has no __post_init__
ContactPlan_init(fields) == fields

\* ContactPlan.to_dict(): the dict from_dict reads
to_dict(p) ==
    [target             |-> Pose_to_dict(p.target),
     normal             |-> as_list(p.contact_normal),
     peak_force_N       |-> p.peak_force_N,
     dwell_ms           |-> p.dwell_ms,
     approach_speed_mps |-> p.approach_speed_mps,
     release_speed_mps  |-> p.release_speed_mps,
     impedance          |-> p.impedance,
     rationale          |-> p.rationale,
     consent_mode       |-> p.consent_mode]

\* ContactPlan.from_dict(d): the plan built from d and the defaults, validated
from_dict(d) ==
    LET imp == Get(d, "impedance", <<>>)
        p   == ContactPlan_init(
                 [target             |-> Pose_from_dict(d.target),
                  contact_normal     |-> from_list(Get(d, "normal", <<0, 0, 10>>)),
                  peak_force_N       |-> Get(d, "peak_force_N", 100),
                  dwell_ms           |-> Get(d, "dwell_ms", 1500),
                  approach_speed_mps |-> Get(d, "approach_speed_mps", 15),
                  release_speed_mps  |-> Get(d, "release_speed_mps", 20),
                  impedance          |->
                      [normal_N_per_mm     |-> Get(imp, "normal_N_per_mm", <<30, 60>>),
                       tangential_N_per_mm |-> Get(imp, "tangential_N_per_mm", <<10, 30>>)],
                  rationale          |-> Get(d, "rationale", ""),
                  consent_mode       |-> Get(d, "consent_mode", "none")])
    IN  IF validate(p) THEN p ELSE ValidationError

\* the shoulder pose in the world frame
WirePose == [frame |-> "W", xyz |-> Vector3(44, -22, 132), rpy |-> RPY(0, 0, 157)]

\* the base plan with its target a Pose and its normal a Vector3
WirePlan ==
    [BasePlan EXCEPT !.target = WirePose, !.contact_normal = Vector3(0, 8, 6)]

\* the field values tried: each bound of validate() met, touched and crossed
PlanFields ==
    { [WirePlan EXCEPT !.peak_force_N = f, !.dwell_ms = dw, !.approach_speed_mps = a,
                       !.release_speed_mps = r, !.impedance.normal_N_per_mm = i] :
        f \in {-100, 0, 100}, dw \in {-1, 0, 10000, 10001}, a \in {0, 15, 101},
        r \in {0, 100, 101}, i \in {<<30, 60>>, <<60, 30>>} }

\* the dicts tried: those of the plans above and one that names the target only
PlanDicts == {to_dict(p) : p \in PlanFields} \cup {[target |-> Pose_to_dict(WirePose)]}

\* the consent records tried: every mode, a timestamp that parses or not, a ttl
RecordInputs ==
    { [subject_id |-> "person-1", mode |-> m, source |-> "verbal", timestamp |-> ts,
       scope |-> {"shoulder_contact"}, ttl_s |-> ttl] :
        m \in {"explicit", "policy", "none"},
        ts \in {<<>>} \cup {isoformat(k) : k \in StartTime - 1 .. StartTime + 1},
        ttl \in {0, 1, 2} }

\* the now_utc argument of is_active: left out, or a time
NowArgs == {None} \cup {Some(k) : k \in StartTime .. StartTime + 3}

\* ContactPlan(...) called directly
Construct ==
    \E fields \in PlanFields :
        /\ x_call' = [op |-> "ContactPlan", ret |-> ContactPlan_init(fields)]
        /\ UNCHANGED now

\* ContactPlan.from_dict(d)
FromDict ==
    \E d \in PlanDicts :
        /\ x_call' = [op |-> "from_dict", d |-> d, ret |-> from_dict(d)]
        /\ UNCHANGED now

\* ConsentRecord.is_active(now_utc); time() is read when now_utc is left out
IsActive ==
    \E c \in RecordInputs, now_utc \in NowArgs :
        LET t == IF now_utc # None THEN now_utc[1] ELSE now
        IN  /\ x_call' = [op |-> "is_active", c |-> c, t |-> t, ret |-> is_active(c, t)]
            /\ UNCHANGED now

\* the nudges sent over the wire
WireNudges ==
    { [level |-> l, target |-> WirePose, normal |-> Vector3(0, 8, 6),
       rationale |-> "Shoulder support (distress cues + consent)",
       priority |-> pr, expires_in_ms |-> 500] :
        l \in {"GREEN", "YELLOW"}, pr \in {0, 8, 10} }

\* the plans sent over the wire: those of PlanFields that validate() accepts, in every
\* consent mode
WirePlans ==
    { [p EXCEPT !.consent_mode = m] :
        p \in {q \in PlanFields : validate(q)}, m \in ConsentMode }

\* x.to_dict() and then from_dict of the result, for a record, a nudge or a plan
RoundTrip ==
    \/ \E c \in RecordInputs :
           /\ x_call' = [op |-> "round_trip", kind |-> "ConsentRecord", x |-> c,
                         d |-> ConsentRecord_to_dict(c),
                         ret |-> ConsentRecord_from_dict(ConsentRecord_to_dict(c), now)]
           /\ UNCHANGED now
    \/ \E n \in WireNudges :
           /\ x_call' = [op |-> "round_trip", kind |-> "Nudge", x |-> n,
                         d |-> Nudge_to_dict(n),
                         ret |-> Nudge_from_dict(Nudge_to_dict(n))]
           /\ UNCHANGED now
    \/ \E p \in WirePlans :
           /\ x_call' = [op |-> "round_trip", kind |-> "ContactPlan", x |-> p,
                         d |-> to_dict(p),
                         ret |-> from_dict(to_dict(p))]
           /\ UNCHANGED now

NextSchema ==
    \/ Tick /\ UNCHANGED <<gateVars, schedVars, planVars, consentVars, schemaVars, threadVars>>
    \/ Construct /\ UNCHANGED <<gateVars, schedVars, planVars, consentVars, threadVars>>
    \/ FromDict /\ UNCHANGED <<gateVars, schedVars, planVars, consentVars, threadVars>>
    \/ IsActive /\ UNCHANGED <<gateVars, schedVars, planVars, consentVars, threadVars>>
    \/ RoundTrip /\ UNCHANGED <<gateVars, schedVars, planVars, consentVars, threadVars>>

\* records and plans built and asked in any order
SpecSchema == InitC /\ [][NextSchema]_vars

\* C19: is_active(now) is true if and only if the mode is not NONE and
\* now - timestamp <= ttl_s, the boundary now - timestamp = ttl_s included; it is false
\* for mode NONE whatever the timestamp and false once now - timestamp exceeds ttl_s.
\* (A timestamp that cannot be parsed has no age: the answer is then false.)
C19_ActiveIffWithinTtl ==
    x_call.op = "is_active" =>
        LET c == x_call.c
        IN  /\ Parses(c.timestamp) =>
                   (x_call.ret <=>
                       (c.mode # "none"
                        /\ x_call.t - fromisoformat(c.timestamp) <= c.ttl_s))
            /\ c.mode = "none" => ~x_call.ret
            /\ (Parses(c.timestamp) /\ x_call.t - fromisoformat(c.timestamp) > c.ttl_s)
                   => ~x_call.ret
            /\ ~Parses(c.timestamp) => ~x_call.ret

\* a record asked exactly ttl_s seconds after its timestamp is active
C19_Witness ==
    /\ x_call.op = "is_active"
    /\ x_call.c.mode = "explicit"
    /\ x_call.c.ttl_s = 2
    /\ Parses(x_call.c.timestamp)
    /\ x_call.t - fromisoformat(x_call.c.timestamp) = x_call.c.ttl_s
    /\ x_call.ret

\* C20: every ContactPlan value obtained, by direct construction or by from_dict,
\* satisfies the bounds of validate(): building one that breaks a bound fails with a
\* validation error instead.
C20_NoInvalidPlanExists ==
    (x_call.op \in {"ContactPlan", "from_dict"} /\ x_call.ret # ValidationError)
        => validate(x_call.ret)

\* ------------------------------------------------------------------ ContactPlanner called with hints

\* envelopes whose only profile declares dwell_ms_min above dwell_ms_max
InvertedEnvelopes ==
    [k \in {"profiles", "defaults"} |->
        IF k = "profiles"
        THEN << <<"inverted", [FullCaps EXCEPT !["dwell_ms_min"] = 3000,
                                               !["dwell_ms_max"] = 1000]>> >>
        ELSE [social_touch_profile |-> "inverted"]]

\* envelopes without a defaults section: the first profile is taken
NoDefaultEnvelopes ==
    [k \in {"profiles"} |-> << <<"zero", ZeroForceCaps>>, <<"social", FullCaps>> >>]

\* (envelopes of the planner, profile_name argument)
PlannerProfiles ==
    { <<Envelopes, NoneStr>>, <<Envelopes, "zero">>, <<Envelopes, "bare">>,
      <<Envelopes, "missing">>, <<InvertedEnvelopes, NoneStr>>,
      <<NoDefaultEnvelopes, NoneStr>> }

\* PlannerHints: a field that is None is left out of the record
HintValues ==
    { [k \in ks |-> CASE k = "peak_force_target"  -> f
                      [] k = "dwell_ms_target"    -> dw
                      [] k = "approach_speed_mps" -> a
                      [] k = "release_speed_mps"  -> r] :
        ks \in SUBSET {"peak_force_target", "dwell_ms_target", "approach_speed_mps",
                       "release_speed_mps"},
        f \in {-50, 100, 500}, dw \in {500, 5000}, a \in {0, 10, 50}, r \in {10} }

\* a nudge as decide() returns it for the shoulder
ShoulderNudge ==
    [level         |-> "GREEN",
     target        |-> POSE_SHOULDER,
     normal        |-> <<0, 8, 6>>,
     rationale     |-> "Shoulder support (distress cues + consent)",
     priority      |-> 8,
     expires_in_ms |-> 500]

\* the nudges with nothing to plan for: None, and a nudge without a target
AbsentNudges == {None, [ShoulderNudge EXCEPT !.target = None]}

\* ContactPlanner(envelopes).plan(nudge, consent, profile_name, hints)
Plan ==
    \E pp \in PlannerProfiles, hints \in HintValues,
       nudge \in AbsentNudges \cup {ShoulderNudge},
       consent \in {c \in ConsentInputs : c.timestamp = isoformat(StartTime)
                                          /\ "shoulder_contact" \in c.scope} :
        /\ nudge \in AbsentNudges => hints = None
        /\ p_call' = [op |-> "plan", seq |-> 0, env |-> pp[1], nudge |-> nudge,
                      consent |-> consent, profile_name |-> pp[2], hints |-> hints,
                      ret |-> ContactPlanner_plan(pp[1], nudge, consent, pp[2], hints)]
        /\ UNCHANGED <<now, gateVars, schedVars, consentVars, schemaVars, threadVars>>

NextPlan == Plan

\* one planner call after another, over the hints, profiles and nudges above
SpecPlan == InitC /\ [][NextPlan]_vars

\* the caps plan() reads from the profile it loads, with its fallbacks
PlanCaps(envelopes, profile_name) ==
    LET prof  == _load_profile(envelopes, profile_name)[1]
        imp_p == Get(prof, "impedance", None)
    IN  [max_force_N         |-> Get(prof, "max_force_N", 120),
         dwell_ms_min        |-> Get(prof, "dwell_ms_min", 1000),
         dwell_ms_max        |-> Get(prof, "dwell_ms_max", 3000),
         approach_speed_mps  |-> Get(prof, "approach_speed_mps", 15),
         release_speed_mps   |-> Get(prof, "release_speed_mps", 20),
         normal_N_per_mm     |-> Get(imp_p, "normal_N_per_mm", <<30, 60>>),
         tangential_N_per_mm |-> Get(imp_p, "tangential_N_per_mm", <<10, 30>>)]

\* plan() returned a plan
PlanReturned == p_call.op = "plan" /\ p_call.ret \notin {None, ValidationError}

\* C21: for every nudge, consent record, hints value and profile with
\* dwell_ms_min <= dwell_ms_max, a plan returned by ContactPlanner.plan stays inside the
\* profile caps: peak_force_N = min(hint or 0.85 x max_force_N, max_force_N), dwell_ms
\* lies in [dwell_ms_min, dwell_ms_max], both speeds are at most their caps and the
\* impedance ranges are the profile's ranges.
C21_PlanWithinCaps ==
    PlanReturned =>
        LET caps == PlanCaps(p_call.env, p_call.profile_name)
            plan == p_call.ret
            h    == p_call.hints
        IN  caps.dwell_ms_min <= caps.dwell_ms_max =>
              /\ plan.peak_force_N =
                     Min(IF "peak_force_target" \in DOMAIN h THEN h.peak_force_target
                         ELSE (85 * caps.max_force_N) \div 100,
                         caps.max_force_N)
              /\ plan.peak_force_N <= caps.max_force_N
              /\ caps.dwell_ms_min <= plan.dwell_ms /\ plan.dwell_ms <= caps.dwell_ms_max
              /\ plan.approach_speed_mps <= caps.approach_speed_mps
              /\ plan.release_speed_mps <= caps.release_speed_mps
              /\ plan.impedance.normal_N_per_mm = caps.normal_N_per_mm
              /\ plan.impedance.tangential_N_per_mm = caps.tangential_N_per_mm

\* a plan returned although the hints asked for more force, dwell and speed than the caps
C21_Witness ==
    /\ PlanReturned
    /\ p_call.profile_name = NoneStr /\ p_call.env = Envelopes
    /\ DOMAIN p_call.hints = {"peak_force_target", "dwell_ms_target", "approach_speed_mps",
                              "release_speed_mps"}
    /\ p_call.hints.peak_force_target = 500
    /\ p_call.hints.dwell_ms_target = 5000
    /\ p_call.hints.approach_speed_mps = 50
    /\ p_call.ret.peak_force_N = 120
    /\ p_call.ret.dwell_ms = 3000
    /\ p_call.ret.approach_speed_mps = 15

\* C22: plan() returns no plan when the nudge or its target is absent; in every other
\* case it returns a plan that satisfies validate() or fails with the validation error,
\* and it fails for a negative force hint and for a non-positive speed hint.
C22_PlanValidOrFails ==
    p_call.op = "plan" =>
        /\ (p_call.nudge = None \/ p_call.nudge.target = None) <=> p_call.ret = None
        /\ p_call.ret \notin {None, ValidationError} => validate(p_call.ret)
        /\ ("peak_force_target" \in DOMAIN p_call.hints
                /\ p_call.hints.peak_force_target < 0) => p_call.ret = ValidationError
        /\ ("approach_speed_mps" \in DOMAIN p_call.hints
                /\ p_call.hints.approach_speed_mps <= 0) => p_call.ret = ValidationError

\* a call with a speed hint of 0 that failed, under a profile that plans fine without it
C22_Witness ==
    /\ p_call.op = "plan"
    /\ p_call.env = Envelopes /\ p_call.profile_name = NoneStr
    /\ DOMAIN p_call.hints = {"approach_speed_mps"}
    /\ p_call.hints.approach_speed_mps = 0
    /\ p_call.ret = ValidationError

\* ------------------------------------------------------------------ hardware channel, every snapshot

\* every value HardwareInterface.read() can return
AllSnaps ==
    [{"e_stop", "watchdog_fault", "overtemp", "overcurrent", "overtorque"} -> BOOLEAN]

\* SafetyGate.hardware_ok() with the hardware reporting snap
HardwareOkRead ==
    \E snap \in AllSnaps :
        /\ g_call' = [op |-> "hardware_ok", was_latched |-> latched,
                      args |-> [snap |-> snap],
                      ret |-> hardware_ok(latched, snap),
                      reads |-> hardware_ok_reads(latched)]
        /\ Remember
        /\ UNCHANGED <<now, profile, latched, latched_reason, latched_ts>>

NextHardware ==
    \/ Trip /\ UNCHANGED <<schedVars, planVars, consentVars, schemaVars, threadVars>>
    \/ ClearLatch /\ UNCHANGED <<schedVars, planVars, consentVars, schemaVars, threadVars>>
    \/ HardwareOkRead /\ UNCHANGED <<schedVars, planVars, consentVars, schemaVars, threadVars>>

\* one gate asked about the hardware, tripped and cleared in any order
SpecHardware == InitC /\ [][NextHardware]_vars

\* the priority order of the fault flags
FaultOrder == <<"e_stop", "watchdog_fault", "overtemp", "overcurrent", "overtorque">>

\* the first fault of snap in that order (snap has one)
FirstFault(snap) ==
    FaultOrder[CHOOSE i \in 1..Len(FaultOrder) :
                   /\ snap[FaultOrder[i]]
                   /\ \A j \in 1..(i - 1) : ~snap[FaultOrder[j]]]

Exceeds(prof, fb, key, cap) ==
    key \in DOMAIN fb /\ cap \in DOMAIN prof /\ fb[key] > prof[cap]

\* some measured value of fb is above its cap in prof
AnyCapExceeded(prof, fb) ==
    \/ Exceeds(prof, fb, "ee_temp_C", "max_surface_temp_C")
    \/ Exceeds(prof, fb, "force_peak_N", "max_force_N")
    \/ Exceeds(prof, fb, "ee_torque_Nm", "max_torque_Nm")

\* C24: monitor_runtime on an unlatched gate latches the gate and returns the trip
\* reason whenever a measured value exceeds the active profile's cap for it (temperature,
\* force, torque); it returns none and leaves the gate unlatched when no cap is exceeded,
\* and a measured current alone never trips the gate.
C24_RuntimeTripsOnExcess ==
    (g_call.op = "monitor_runtime" /\ ~g_call.was_latched) =>
        LET fb == g_call.args[1]
        IN  IF AnyCapExceeded(profile, fb)
            THEN /\ latched
                 /\ g_call.ret # NoneStr
                 /\ latched_reason = g_call.ret
            ELSE /\ ~latched
                 /\ g_call.ret = NoneStr

\* a sequence of three numbers
IsTriple(v) == DOMAIN v = 1..3

SchedThreads == {1, 2}

IdleThread == [pc |-> "idle", idx |-> 0, now_ts |-> 0, ret |-> None]

\* the ranked candidates of the scene, as decide() computes them on entry
SceneRanked ==
    _rank_candidates(scene.human_state, scene.consent,
                     _filter_by_safety(scene.affordances, scene.rq))

\* the loop of decide() moves thread i on to candidate idx, or returns None after the last
NextCandidate(i, idx) ==
    IF idx > Len(SceneRanked)
    THEN threads' = [threads EXCEPT ![i] = [pc |-> "done", idx |-> 0,
                                            now_ts |-> threads[i].now_ts, ret |-> None]]
    ELSE threads' = [threads EXCEPT ![i] = [pc |-> "l88", idx |-> idx,
                                            now_ts |-> now, ret |-> None]]

\* thread i calls decide(): filter, rank, and enter debounce for the top candidate
DecideEnter(i) ==
    /\ threads[i].pc \in {"idle", "done"}
    /\ NextCandidate(i, 1)
    /\ UNCHANGED <<now, gateVars, schedVars, planVars, consentVars, schemaVars>>

\* line 88: the fingerprint and the time are compared with the stored ones
DebounceTest(i) ==
    LET th == threads[i]
        c  == SceneRanked[th.idx]
    IN  /\ th.pc = "l88"
        /\ IF last_nudge_fingerprint = Fingerprint(c.a)
              /\ (th.now_ts - last_nudge_ts) < policy.debounce_window_s
           THEN IF th.idx = 1
                THEN threads' = [threads EXCEPT ![i] = [th EXCEPT !.pc = "done",
                                                                  !.ret = None]]
                ELSE NextCandidate(i, th.idx + 1)
           ELSE threads' = [threads EXCEPT ![i] = [th EXCEPT !.pc = "l90"]]
        /\ UNCHANGED <<now, gateVars, schedVars, planVars, consentVars, schemaVars>>

\* line 90: self._last_nudge_fingerprint = fp
DebounceSetFp(i) ==
    LET th == threads[i]
    IN  /\ th.pc = "l90"
        /\ last_nudge_fingerprint' = Fingerprint(SceneRanked[th.idx].a)
        /\ threads' = [threads EXCEPT ![i] = [th EXCEPT !.pc = "l91"]]
        /\ UNCHANGED <<now, gateVars, last_social_contact_ts, last_nudge_ts, scene, s_call,
                       emitted, planVars, consentVars, schemaVars>>

\* line 91: self._last_nudge_ts = now_ts, debounce returns False, and the rest of
\* _candidate_to_nudge_with_reason (cooldown test, nudge) runs on the thread's own data
DebounceSetTs(i) ==
    LET th == threads[i]
        r  == _candidate_to_nudge_with_reason(
                  SceneRanked[th.idx], scene.human_state, scene.consent,
                  [social |-> last_social_contact_ts, fp |-> None, ts |-> 0], now)
    IN  /\ th.pc = "l91"
        /\ last_nudge_ts' = th.now_ts
        /\ IF r.nudge # None
           THEN threads' = [threads EXCEPT ![i] = [th EXCEPT !.pc = "done",
                                                             !.ret = r.nudge]]
           ELSE NextCandidate(i, th.idx + 1)
        /\ UNCHANGED <<now, gateVars, last_social_contact_ts, last_nudge_fingerprint, scene,
                       s_call, emitted, planVars, consentVars, schemaVars>>

NextSchedRace ==
    \/ Tick /\ UNCHANGED <<gateVars, schedVars, planVars, consentVars, schemaVars, threadVars>>
    \/ \E i \in SchedThreads : DecideEnter(i)
    \/ \E i \in SchedThreads : DebounceTest(i)
    \/ \E i \in SchedThreads : DebounceSetFp(i)
    \/ \E i \in SchedThreads : DebounceSetTs(i)

\* the scenes both threads are given: one candidate, so both have the same top candidate
RaceScenes ==
    [human_state : HumanStates, consent : ConsentInputs,
     affordances : {<<a>> : a \in AffordancePool}, rq : SchedRisks]

InitR ==
    /\ now = StartTime
    /\ profile = SafetyGate_init(Envelopes, NoneStr)
    /\ latched = FALSE
    /\ latched_reason = ""
    /\ latched_ts = 0
    /\ g_call = NoCall
    /\ g_hist = [after_clear |-> FALSE, vetoed |-> FALSE]
    /\ p_call = NoCall
    /\ InitConsentIdle
    /\ InitSchemaIdle
    /\ last_social_contact_ts = 0
    /\ last_nudge_fingerprint = None
    /\ last_nudge_ts = 0
    /\ scene \in RaceScenes
    /\ s_call = NoCall
    /\ emitted = None
    /\ threads = [i \in SchedThreads |-> IdleThread]

\* two threads calling decide() on one scheduler and one scene
SpecSchedRace == InitR /\ [][NextSchedRace]_vars

\* C26: calls of decide() on one scheduler are serialized, the debounce test and update
\* of one call never interleaving with another's: of two calls for the same top
\* candidate made less than one debounce window apart, at most one returns a nudge.
C26_OneNudgePerWindow ==
    \A i, j \in SchedThreads :
        ( /\ i # j
          /\ threads[i].pc = "done" /\ threads[i].ret # None
          /\ threads[j].pc = "done" /\ threads[j].ret # None
          /\ threads[i].now_ts <= threads[j].now_ts )
        => threads[j].now_ts - threads[i].now_ts >= policy.debounce_window_s

\* ------------------------------------------------------------------ threads on one gate

\* The gate holds no lock either.  One thread calls trip(reason), one calls clear_latch()
\* and one calls monitor_runtime({}), each at
\*   "idle", "done"            outside the call
\*   "l185", "l186", "l187"    before that line of trip
\*   "l191", "l192", "l193"    before that line of clear_latch
\*   "l211", "l212"            before that line of monitor_runtime
GateThreads == {"trip", "clear_latch", "monitor_runtime"}

\* thread th stands at pc, everything else of it unchanged
Goto(th, pc) == threads' = [threads EXCEPT ![th].pc = pc]

\* a thread calls its method
GateEnter ==
    \/ /\ threads["trip"].pc \in {"idle", "done"}
       /\ \E reason \in TripReasons :
              threads' = [threads EXCEPT !["trip"] = [pc |-> "l185", reason |-> reason]]
       /\ UNCHANGED <<now, gateVars, schedVars, planVars, consentVars, schemaVars>>
    \/ /\ threads["clear_latch"].pc \in {"idle", "done"}
       /\ Goto("clear_latch", "l191")
       /\ UNCHANGED <<now, gateVars, schedVars, planVars, consentVars, schemaVars>>
    \/ /\ threads["monitor_runtime"].pc \in {"idle", "done"}
       /\ threads' = [threads EXCEPT !["monitor_runtime"] =
                          [pc |-> "l211", saw_latched |-> FALSE, ret |-> NoneStr]]
       /\ UNCHANGED <<now, gateVars, schedVars, planVars, consentVars, schemaVars>>

\* one line of trip(reason)
TripLine ==
    LET th == threads["trip"]
    IN  \/ /\ th.pc = "l185"
           /\ latched' = TRUE
           /\ Goto("trip", "l186")
           /\ UNCHANGED <<latched_reason, latched_ts>>
        \/ /\ th.pc = "l186"
           /\ latched_reason' = th.reason
           /\ Goto("trip", "l187")
           /\ UNCHANGED <<latched, latched_ts>>
        \/ /\ th.pc = "l187"
           /\ latched_ts' = now
           /\ Goto("trip", "done")
           /\ UNCHANGED <<latched, latched_reason>>

\* one line of clear_latch()
ClearLine ==
    LET th == threads["clear_latch"]
    IN  \/ /\ th.pc = "l191"
           /\ latched' = FALSE
           /\ Goto("clear_latch", "l192")
           /\ UNCHANGED <<latched_reason, latched_ts>>
        \/ /\ th.pc = "l192"
           /\ latched_reason' = ""
           /\ Goto("clear_latch", "l193")
           /\ UNCHANGED <<latched, latched_ts>>
        \/ /\ th.pc = "l193"
           /\ latched_ts' = 0
           /\ Goto("clear_latch", "done")
           /\ UNCHANGED <<latched, latched_reason>>

\* one line of monitor_runtime({}): the test of self._latched, then the return of
\* self._latched_reason; with no measurement and the gate unlatched it returns None
MonitorLine ==
    LET th == threads["monitor_runtime"]
    IN  /\ \/ /\ th.pc = "l211"
              /\ IF latched
                 THEN threads' = [threads EXCEPT !["monitor_runtime"] =
                                      [pc |-> "l212", saw_latched |-> TRUE, ret |-> NoneStr]]
                 ELSE threads' = [threads EXCEPT !["monitor_runtime"] =
                                      [pc |-> "done", saw_latched |-> FALSE,
                                       ret |-> runtime_trip_reason(profile, None)]]
           \/ /\ th.pc = "l212"
              /\ threads' = [threads EXCEPT !["monitor_runtime"] =
                                 [pc |-> "done", saw_latched |-> TRUE,
                                  ret |-> latched_reason]]
        /\ UNCHANGED <<latched, latched_reason, latched_ts>>

NextGateRace ==
    \/ Tick /\ UNCHANGED <<gateVars, schedVars, planVars, consentVars, schemaVars, threadVars>>
    \/ GateEnter
    \/ TripLine /\ UNCHANGED <<now, profile, g_call, g_hist, schedVars, planVars,
                               consentVars, schemaVars>>
    \/ ClearLine /\ UNCHANGED <<now, profile, g_call, g_hist, schedVars, planVars,
                                consentVars, schemaVars>>
    \/ MonitorLine /\ UNCHANGED <<now, profile, g_call, g_hist, schedVars, planVars,
                                  consentVars, schemaVars>>

InitGR ==
    /\ now = StartTime
    /\ profile = SafetyGate_init(Envelopes, NoneStr)
    /\ latched = FALSE
    /\ latched_reason = ""
    /\ latched_ts = 0
    /\ g_call = NoCall
    /\ g_hist = [after_clear |-> FALSE, vetoed |-> FALSE]
    /\ InitSchedIdle
    /\ InitPlanIdle
    /\ InitConsentIdle
    /\ InitSchemaIdle
    /\ threads = [th \in GateThreads |->
                     IF th = "trip" THEN [pc |-> "idle", reason |-> ""]
                     ELSE IF th = "clear_latch" THEN [pc |-> "idle"]
                     ELSE [pc |-> "idle", saw_latched |-> FALSE, ret |-> NoneStr]]

\* three threads on one gate, preempted between any two lines
SpecGateRace == InitGR /\ [][NextGateRace]_vars

\* C27: calls on one gate are serialized, the three latch fields changing together:
\* whenever no trip or clear_latch is under way the gate is either latched with the
\* reason and time of a trip or unlatched with the empty reason and time 0, and a
\* monitor_runtime call that found the gate latched returns the reason of a trip.
C27_LatchFieldsAtomic ==
    /\ (threads["trip"].pc \in {"idle", "done"}
            /\ threads["clear_latch"].pc \in {"idle", "done"}) =>
           \/ latched /\ latched_reason \in TripReasons /\ latched_ts >= StartTime
           \/ ~latched /\ latched_reason = "" /\ latched_ts = 0
    /\ (threads["monitor_runtime"].pc = "done"
            /\ threads["monitor_runtime"].saw_latched) =>
           threads["monitor_runtime"].ret \in TripReasons

\* ------------------------------------------------------------------ envelope vetoes

\* the cap a profile declares under key k, if it declares one
Declares(prof, k) == k \in DOMAIN prof

\* lo..hi lies inside the range the profile declares for the impedance axis
ImpedanceBreached(prof, plan, axis) ==
    /\ Declares(prof, "impedance")
    /\ axis \in DOMAIN prof["impedance"]
    /\ LET p == prof["impedance"][axis]
           r == plan.impedance[axis]
       IN  ~(p[1] <= r[1] /\ r[1] <= r[2] /\ r[2] <= p[2])

\* the plan breaches the cap of the profile on quantity q
Breached(prof, plan, q) ==
    CASE q = "peak_force_N" ->
            Declares(prof, "max_force_N") /\ plan.peak_force_N > prof["max_force_N"]
      [] q = "dwell_ms" ->
            \/ Declares(prof, "dwell_ms_min") /\ plan.dwell_ms < prof["dwell_ms_min"]
            \/ Declares(prof, "dwell_ms_max") /\ plan.dwell_ms > prof["dwell_ms_max"]
      [] q = "approach_speed_mps" ->
            Declares(prof, q) /\ plan.approach_speed_mps > prof[q]
      [] q = "release_speed_mps" ->
            Declares(prof, q) /\ plan.release_speed_mps > prof[q]
      [] q = "normal_impedance" -> ImpedanceBreached(prof, plan, "normal_N_per_mm")
      [] q = "tangential_impedance" -> ImpedanceBreached(prof, plan, "tangential_N_per_mm")

EnvelopeOrder ==
    <<"peak_force_N", "dwell_ms", "approach_speed_mps", "release_speed_mps",
      "normal_impedance", "tangential_impedance">>

\* the first quantity of the order that the plan breaches
FirstBreached(prof, plan) ==
    LET hit == {i \in 1..Len(EnvelopeOrder) : Breached(prof, plan, EnvelopeOrder[i])}
    IN  EnvelopeOrder[CHOOSE i \in hit : \A j \in hit : i <= j]

\* C28: software_ok on an unlatched gate returns ok only if the plan's dwell is in
\* the profile's window, both speeds are at most their caps and both impedance
\* ranges are nested in the profile's; a breach of any of them vetoes with the
\* envelope reason naming the first breached quantity in the order force, dwell,
\* approach speed, release speed, normal impedance, tangential impedance.
C28_EnvelopeVetoNamesFirstBreach ==
    (g_call.op = "software_ok" /\ ~g_call.was_latched) =>
        LET plan   == g_call.args.plan
            listed == {q \in {EnvelopeOrder[i] : i \in 2..6} : Breached(profile, plan, q)}
        IN  /\ g_call.ret[1] => listed = {}
            /\ listed # {} =>
                   g_call.ret = <<FALSE, "envelope_veto: " \o FirstBreached(profile, plan)>>

\* ------------------------------------------------------------------ target and corridor

\* the point at fraction k/11 of the segment start -> target
InteriorPoint(start, target, k) ==
    [i \in 1..3 |-> start[i] + (k * (target[i] - start[i])) \div 11]

\* one of the 10 interior points of the segment classifies RED
InteriorRed(start, target, rq) ==
    \E k \in 1..10 : risk_query(rq, InteriorPoint(start, target, k)) = "RED"

\* C29: on an unlatched gate an envelope breach is reported first; for a plan inside
\* the envelopes software_ok vetoes with the target reason if the target classifies
\* RED; otherwise, given a start pose, it vetoes with the corridor reason if and only
\* if one of the 10 interior points at fractions k/11, k = 1..10, classifies RED, and
\* given no start pose it classifies no corridor point and returns ok.
C29_TargetThenCorridor ==
    (g_call.op = "software_ok" /\ ~g_call.was_latched) =>
        LET plan  == g_call.args.plan
            rq    == g_call.args.rq
            start == g_call.args.start_pose
            env   == _check_envelopes(profile, plan)
        IN  IF ~env[1]
            THEN g_call.ret = <<FALSE, "envelope_veto: " \o env[2]>>
            ELSE IF risk_query(rq, plan.target) = "RED"
            THEN g_call.ret = <<FALSE, "safety_map: target RED">>
            ELSE IF start # None /\ InteriorRed(start, plan.target, rq)
            THEN g_call.ret = <<FALSE, "safety_map: corridor contains RED">>
            ELSE g_call.ret = <<TRUE, "ok">>

\* the case of C29: for a plan inside the envelopes whose target is not RED, a call
\* with a start pose was vetoed for the corridor
C29_Witness ==
    /\ g_call.op = "software_ok" /\ ~g_call.was_latched
    /\ _check_envelopes(profile, g_call.args.plan)[1]
    /\ risk_query(g_call.args.rq, g_call.args.plan.target) # "RED"
    /\ g_call.args.start_pose = POSE_REST
    /\ g_call.ret = <<FALSE, "safety_map: corridor contains RED">>

\* ------------------------------------------------------------------ the debounce state

\* C30: the debounce state records the last emitted nudge: a decide() call that
\* returns a nudge sets (last_nudge_fingerprint, last_nudge_time) to that nudge's
\* candidate and the time of the call, and a decide() call that returns no nudge
\* leaves both unchanged; they are never set to a candidate that was rejected.
C30_DebounceRecordsEmitted ==
    [][ DecideStep =>
          IF s_call'.ret # None
          THEN /\ last_nudge_fingerprint' = Fingerprint(s_call'.cand)
               /\ last_nudge_ts' = now
          ELSE UNCHANGED <<last_nudge_fingerprint, last_nudge_ts>>
      ]_vars

\* ------------------------------------------------------------------ a candidate detected again

\* the shoulder detected again one position unit away
ShoulderNear ==
    [name |-> "shoulder", category |-> "human", pose |-> <<45, -22, 132>>,
     utility |-> 9, safety_level |-> "GREEN"]

\* a candidate of category human that is not the shoulder
HumanHand ==
    [name |-> "hand", category |-> "human", pose |-> POSE_CUP,
     utility |-> 5, safety_level |-> "GREEN"]

\* the candidate lists perception hands to decide() from one cycle to the next
DetectLists ==
    { <<QuickstartAffordances[1]>>,
      <<ShoulderNear>>,
      <<QuickstartAffordances[2]>>,
      <<ShoulderNear, QuickstartAffordances[2]>>,
      <<HumanHand>> }

\* a POLICY-mode record granted at StartTime for 2 s
PolicyConsent ==
    [subject_id |-> "person-1", mode |-> "policy", source |-> "profile",
     timestamp |-> isoformat(StartTime), scope |-> {"shoulder_contact"}, ttl_s |-> 2]

\* between two cycles perception detects the candidates again
Redetect ==
    /\ \E affs \in DetectLists : scene' = [scene EXCEPT !.affordances = affs]
    /\ scene' # scene
    /\ s_call' = [op |-> "none", seq |-> s_call.seq]
    /\ UNCHANGED <<now, last_social_contact_ts, last_nudge_fingerprint, last_nudge_ts,
                   emitted>>

NextRedetect ==
    \/ Tick /\ UNCHANGED <<gateVars, schedVars, planVars, consentVars, schemaVars, threadVars>>
    \/ Redetect /\ UNCHANGED <<gateVars, planVars, consentVars, schemaVars, threadVars>>
    \/ Decide /\ UNCHANGED <<gateVars, planVars, consentVars, schemaVars, threadVars>>

InitD ==
    /\ now = StartTime
    /\ profile = SafetyGate_init(Envelopes, NoneStr)
    /\ latched = FALSE
    /\ latched_reason = ""
    /\ latched_ts = 0
    /\ g_call = NoCall
    /\ g_hist = [after_clear |-> FALSE, vetoed |-> FALSE]
    /\ p_call = NoCall
    /\ InitConsentIdle
    /\ InitSchemaIdle
    /\ InitThreadsIdle
    /\ last_social_contact_ts = 0
    /\ last_nudge_fingerprint = None
    /\ last_nudge_ts = 0
    /\ scene \in [human_state : HumanStates, consent : ConsentInputs \cup {PolicyConsent},
                  affordances : DetectLists, rq : {AllGreen}]
    /\ s_call = NoCall
    /\ emitted = None

\* one scheduler, no contact executed, the candidates detected anew each cycle
SpecRedetect == InitD /\ [][NextRedetect]_vars

\* the rounding resolution of a fingerprint's position, in position units
Resolution == 11

\* a position rounded to the resolution
Rounded(xyz) == [i \in 1..3 |-> (xyz[i] + Resolution \div 2) \div Resolution]

\* C31: the fingerprint is (name, rounded position): within the debounce window of
\* the last emitted nudge, decide() returns no nudge when its first candidate has the
\* name of that nudge and a position that rounds to the same value.
C31_RoundedFingerprintDebounced ==
    [][ ( /\ DecideStep
          /\ emitted # None
          /\ (now - emitted.ts) < policy.debounce_window_s
          /\ scene.affordances[1].name = emitted.fp[1]
          /\ Rounded(scene.affordances[1].pose) = Rounded(emitted.fp[2]) )
        => s_call'.ret = None
      ]_vars

\* ------------------------------------------------------------------ ranking

\* candidates whose utilities span [0, 1]
RankPool ==
    { [name |-> n, category |-> (IF n = "shoulder" THEN "human" ELSE "object"),
       pose |-> (IF n = "shoulder" THEN POSE_SHOULDER
                 ELSE IF n = "flat_surface" THEN POSE_TABLE ELSE POSE_CUP),
       utility |-> u, safety_level |-> "GREEN"] :
          n \in {"shoulder", "flat_surface", "cup"}, u \in {0, 10} }

\* the lists of two or three candidates of different names, in every order
RankLists ==
    { l \in UNION { [1..n -> RankPool] : n \in 2..3 } :
          \A i, j \in 1..Len(l) : i # j => l[i].name # l[j].name }

NextRank ==
    \/ Tick /\ UNCHANGED <<gateVars, schedVars, planVars, consentVars, schemaVars, threadVars>>
    \/ Decide /\ UNCHANGED <<gateVars, planVars, consentVars, schemaVars, threadVars>>

InitK ==
    /\ now = StartTime
    /\ profile = SafetyGate_init(Envelopes, NoneStr)
    /\ latched = FALSE
    /\ latched_reason = ""
    /\ latched_ts = 0
    /\ g_call = NoCall
    /\ g_hist = [after_clear |-> FALSE, vetoed |-> FALSE]
    /\ p_call = NoCall
    /\ InitConsentIdle
    /\ InitSchemaIdle
    /\ InitThreadsIdle
    /\ last_social_contact_ts = 0
    /\ last_nudge_fingerprint = None
    /\ last_nudge_ts = 0
    /\ scene \in [human_state : HumanStates, consent : ConsentInputs,
                  affordances : RankLists,
                  rq : {AllGreen, [red |-> {}, yellow |-> {POSE_TABLE}]}]
    /\ s_call = NoCall
    /\ emitted = None

\* decide() on candidate lists of every order and utility
SpecRank == InitK /\ [][NextRank]_vars

\* the position in the scene's input list of the candidate named n
InputIndex(scn, n) == CHOOSE i \in 1..Len(scn.affordances) : scn.affordances[i].name = n

\* the human is present in distress and the policy allows the shoulder
SocialMode(scn) ==
    /\ Get(scn.human_state, "present", FALSE)
    /\ Get(scn.human_state, "distress", 0) >= policy.distress_support_threshold
    /\ policy.allow_shoulder

\* C32: decide() evaluates the surviving candidates in descending order of score,
\* candidates of equal score in their input order; with the human present, distress
\* at or above the threshold, allow_shoulder and all-GREEN risk the shoulder is ahead
\* of every object candidate whatever the utilities, and the nudge decide() returns
\* is the shoulder's.
C32_RankedDescendingStable ==
    LET R     == Ranked(scene)
        sc(k) == Score(R[k], scene.human_state, scene.consent)
        in(k) == InputIndex(scene, R[k].a.name)
    IN  /\ Len(R) = Cardinality(NonRed(scene))
        /\ {in(k) : k \in 1..Len(R)} = NonRed(scene)
        /\ \A i, j \in 1..Len(R) :
               i < j => /\ sc(i) >= sc(j)
                        /\ sc(i) = sc(j) => in(i) < in(j)
        /\ (SocialMode(scene) /\ scene.rq = AllGreen) =>
               /\ \A i, j \in 1..Len(R) :
                      (R[i].a.name = "shoulder" /\ R[j].a.category = "object") => i < j
               /\ ( /\ s_call.op = "decide" /\ s_call.ret # None
                    /\ \E k \in 1..Len(R) : R[k].a.name = "shoulder" )
                  => s_call.cand.name = "shoulder"

\* the case of C32: two objects of equal score are ranked in their input order behind
\* a shoulder of utility 0 that stands last in the input, and decide() returned the
\* shoulder
C32_Witness ==
    /\ SocialMode(scene) /\ scene.rq = AllGreen
    /\ Len(scene.affordances) = 3
    /\ scene.affordances[3].name = "shoulder" /\ scene.affordances[3].utility = 0
    /\ scene.affordances[1].utility = 10 /\ scene.affordances[2].utility = 10
    /\ Ranked(scene)[2].a = scene.affordances[1]
    /\ Ranked(scene)[3].a = scene.affordances[2]
    /\ s_call.op = "decide" /\ s_call.ret # None /\ s_call.cand.name = "shoulder"

\* ------------------------------------------------------------------ the consent term of the score

\* what the consent record adds to the score of ranked candidate c
ConsentTerm(c, scn) ==
    Score(c, scn.human_state, scn.consent)
        - Score(c, scn.human_state, [scn.consent EXCEPT !.mode = "none"])

\* the record covers the shoulder scope at time t: a mode other than NONE, unexpired,
\* shoulder_contact in its scope
CoversShoulder(consent, t) ==
    /\ consent.mode # "none"
    /\ Parses(consent.timestamp)
    /\ t - fromisoformat(consent.timestamp) <= consent.ttl_s
    /\ "shoulder_contact" \in consent.scope

\* C33: in ranking the consent term w_consent x 0.5 is added to the shoulder's score
\* only when the record currently covers the shoulder scope (mode not NONE, unexpired,
\* scope containing shoulder_contact); an expired record or one without the scope
\* adds nothing.
C33_ConsentTermNeedsCoverage ==
    s_call.op = "decide" =>
        \A k \in 1..Len(Ranked(scene)) :
            LET c == Ranked(scene)[k]
            IN  ConsentTerm(c, scene) =
                    IF c.a.name = "shoulder" /\ CoversShoulder(scene.consent, now)
                    THEN policy.w_consent * 5 ELSE 0

\* ------------------------------------------------------------------ the start of the social cooldown

\* C34: decide() never changes last_social_contact_time, and as long as
\* notify_contact_executed() has not been called no candidate of a decide() call is
\* rejected for cooldown, whatever nudges were emitted before.
C34_DecideStartsNoCooldown ==
    [][ DecideStep =>
          /\ last_social_contact_ts' = last_social_contact_ts
          /\ last_social_contact_ts = 0 =>
                 \A k \in 1..Len(Ranked(scene)) :
                     ReasonOf(scene, k, cooldowns, now) # "cooldown"
      ]_vars

\* the case of C34: with no contact ever notified, a decide() call later than the
\* first debounce window returned a human-contact nudge
C34_Witness ==
    /\ s_call.op = "decide" /\ s_call.ret # None
    /\ s_call.cand.category = "human"
    /\ last_social_contact_ts = 0
    /\ emitted.ts >= StartTime + policy.debounce_window_s

\* ------------------------------------------------------------------ the queries and the latch

C36_ReasonOfLastTrip ==
    [][ /\ ~latched => (latched_reason = "" /\ latched_ts = 0)
        /\ ~latched' => (latched_reason' = "" /\ latched_ts' = 0)
        /\ (now' = now /\ g_call'.op = "trip") =>
               (latched' /\ latched_reason' = g_call'.args[1])
        /\ (now' = now /\ g_call'.op = "monitor_runtime") =>
               IF latched
               THEN /\ g_call'.ret = latched_reason
                    /\ UNCHANGED <<latched, latched_reason, latched_ts>>
               ELSE IF g_call'.ret = NoneStr
               THEN UNCHANGED <<latched, latched_reason, latched_ts>>
               ELSE latched' /\ latched_reason' = g_call'.ret
      ]_vars

\* the case of C36: a trip on an already latched gate, later than the first trip, has
\* stored its own reason
C36_Witness ==
    /\ g_call.op = "trip" /\ g_call.was_latched
    /\ latched /\ latched_reason = g_call.args[1]
    /\ latched_ts = now /\ now > StartTime

\* ------------------------------------------------------------------ a missing envelope

\* the active profile declares no force cap or lacks one of the speed caps (an
\* unresolved profile declares nothing)
EnvelopeIncomplete(prof) ==
    \/ "max_force_N" \notin DOMAIN prof
    \/ "approach_speed_mps" \notin DOMAIN prof
    \/ "release_speed_mps" \notin DOMAIN prof

\* C37: the gate fails closed on a missing envelope: when the active profile could not
\* be resolved, or omits max_force_N or a speed cap, software_ok on the unlatched gate
\* does not return ok.
C37_FailsClosedWithoutEnvelope ==
    (g_call.op = "software_ok" /\ ~g_call.was_latched /\ EnvelopeIncomplete(profile))
        => ~g_call.ret[1]

\* ------------------------------------------------------------------ planner and gate

\* the envelope check of SafetyGate(envelopes, active_profile=profile_name) on the plan
\* the planner returned for the same envelopes and profile name
GateAccepts ==
    _check_envelopes(SafetyGate_init(p_call.env, p_call.profile_name), p_call.ret)[1]

Inactive(consent, t) ==
    \/ consent.mode = "none"
    \/ ~Parses(consent.timestamp)
    \/ t - fromisoformat(consent.timestamp) > consent.ttl_s

\* C39: under require_explicit_for_social, decide() emits no GREEN nudge for a
\* candidate of category human, whatever its name, while the consent record is
\* inactive.
C39_NoGreenHumanWithoutConsent ==
    [][ ( /\ DecideStep
          /\ policy.require_explicit_for_social
          /\ s_call'.ret # None
          /\ s_call'.cand.category = "human"
          /\ Inactive(scene.consent, now) )
        => s_call'.ret.level # "GREEN"
      ]_vars

\* decide() returned a nudge for the shoulder
ShoulderStep ==
    /\ DecideStep
    /\ policy.require_explicit_for_social
    /\ s_call'.ret # None
    /\ s_call'.cand.category = "human" /\ s_call'.cand.name = "shoulder"

====
